---------------------------- MODULE Spec2Model ----------------------------
(***************************************************************************)
(* A model of flair::internal::ConcurrentQueue<T, MAX_BLOCK_SIZE>          *)
(* (src/src/flair/internal/ConcurrentQueue.h): a single-producer,          *)
(* single-consumer queue built as a circular linked list of circular       *)
(* buffers ("blocks").                                                     *)
(*                                                                         *)
(* Every std::atomic access of the source is a seq_cst load or store, so   *)
(* the threads are modelled by interleaving: one step holds at most one    *)
(* access to a field the other thread writes, plus accesses to fields the  *)
(* stepping thread owns.  The construction and destruction of an element   *)
(* in a slot are steps of their own.                                       *)
(*                                                                         *)
(* The queue object is the record q, the producer thread's frame and       *)
(* history is p, the consumer thread's is c.  Each step of the source is   *)
(* an operator from (q, frame) to [q, frame]; the actions apply them.      *)
(* Elements are the integers 1, 2, 3, ... in enqueue order; 0 in a slot    *)
(* means that the slot holds no live element.                              *)
(*                                                                         *)
(* After the queue come three smaller classes of the repository, each with *)
(* a variable of its own and specifications of its own:                    *)
(* flair::display::DisplayObject (setParent), flair::net::FileReference    *)
(* (load) and flair::utils::ByteArray (position, length, reads, writes).   *)
(***************************************************************************)
EXTENDS Integers, Sequences, FiniteSets, TLC

VARIABLES
    MAX_BLOCK_SIZE,   \* the template parameter of this instantiation
    maxSize,          \* the constructor's argument
    q,                \* the queue object and its blocks
    p,                \* producer thread
    c,                \* consumer thread
    display,          \* the DisplayObjects of a display list
    file,             \* a FileReference and the file service's request for it
    bytes             \* a ByteArray

vars == <<MAX_BLOCK_SIZE, maxSize, q, p, c, display, file, bytes>>

\* the value of the variable of a class that a specification does not run
Absent == "absent"
queueVars == <<MAX_BLOCK_SIZE, maxSize, q, p, c>>
otherVars == <<display, file, bytes>>

--------------------------------------------------------------------------
(* Bounds of the model *)

\* successful enqueues of one run (elements are 1..MaxEnq)
MaxEnq == 5
\* largest capacity hint the constructor is called with
MaxHint == 6
\* successful enqueues of one single-threaded run
MaxSeqEnq == 8
\* blocks the allocator can hand out before malloc returns null for good
MaxBlocks == 5
\* largest capacity hint of the runs of the constructor alone
MaxCtorHint == 20
\* successful enqueues of one short run
MaxShortEnq == 2
\* display objects
MaxObjects == 4
\* open requests a FileReference makes, and chunks the service delivers per read
MaxLoads == 3
MaxChunks == 2
\* ByteArray: the allocation unit, the longest array, the longest writeBytes
BLOCK_SIZE == 4
MaxLength == 6
MaxBytes == 2

\* instantiations of the template parameter (powers of two >= 2, line 62-63)
BlockSizeParams == {2, 4}

\* sizeof(size_t) of the modelled build, in bytes: size_t is 16 bits wide
SizeofSizeT == 2

SizeRange == 2 ^ (8 * SizeofSizeT)

--------------------------------------------------------------------------
(* Integer helpers *)

RECURSIVE BitOr(_, _)
BitOr(a, b) ==
    IF a = 0 THEN b
    ELSE IF b = 0 THEN a
    ELSE (IF a % 2 = 1 \/ b % 2 = 1 THEN 1 ELSE 0) + 2 * BitOr(a \div 2, b \div 2)

ShiftRight(x, k) == x \div (2 ^ k)

\* x & mask for a mask of the form 2^k - 1, x taken modulo the width of size_t
Masked(x, mask) == (x % SizeRange) % (mask + 1)

RECURSIVE ceilLoop(_, _)
ceilLoop(x, i) ==
    IF i < SizeofSizeT
    THEN ceilLoop(BitOr(x, ShiftRight(x, i * 8)), i * 2)
    ELSE x

ceilToPow2(x) ==
    LET x0 == (x - 1) % SizeRange
        x1 == BitOr(x0, ShiftRight(x0, 1))
        x2 == BitOr(x1, ShiftRight(x1, 2))
        x3 == BitOr(x2, ShiftRight(x2, 4))
        x4 == ceilLoop(x3, 1)
    IN  (x4 + 1) % SizeRange

--------------------------------------------------------------------------
(* Blocks *)

\* struct block as its constructor leaves it; next = 0 is nullptr
block(size) ==
    [ front      |-> 0,
      localTail  |-> 0,
      tail       |-> 0,
      localFront |-> 0,
      next       |-> 0,
      sizeMask   |-> size - 1,
      data       |-> [i \in 0 .. size - 1 |-> 0] ]

\* make_block: the id of the new block, or 0 (nullptr) when malloc fails.
\* mallocOk is the allocator's answer; the pool holds MaxBlocks blocks.
make_block(qq, mallocOk) ==
    IF mallocOk /\ Len(qq.blocks) < MaxBlocks THEN Len(qq.blocks) + 1 ELSE 0

Capacity(b) == b.sizeMask + 1

\* number of live elements in the slots of a block / of the queue
LiveSlots(b) == {i \in DOMAIN b.data : b.data[i] # 0}

RECURSIVE SumLive(_, _)
SumLive(blocks, n) ==
    IF n = 0 THEN 0 ELSE Cardinality(LiveSlots(blocks[n])) + SumLive(blocks, n - 1)

Resident(qq) == SumLive(qq.blocks, Len(qq.blocks))

\* the live elements of the queue, as a set
ResidentValues(qq) ==
    UNION {{qq.blocks[b].data[i] : i \in LiveSlots(qq.blocks[b])} : b \in 1 .. Len(qq.blocks)}

\* the slots from front up to tail, the elements the block holds by its indices
Logical(b) ==
    {Masked(b.front + k, b.sizeMask) : k \in 0 .. ((b.tail - b.front) % Capacity(b)) - 1}

\* the blocks from b to last along next
RECURSIVE PathTo(_, _, _, _)
PathTo(qq, b, last, seen) ==
    IF b \in seen \/ b = 0 THEN seen
    ELSE IF b = last THEN seen \cup {b}
    ELSE PathTo(qq, qq.blocks[b].next, last, seen \cup {b})

\* the blocks strictly after frontBlock up to and including tailBlock
AfterFront(qq) ==
    IF qq.frontBlock = qq.tailBlock THEN {}
    ELSE PathTo(qq, qq.blocks[qq.frontBlock].next, qq.tailBlock, {})

\* the elements of completed enqueue calls that are in the queue: the
\* constructed elements between front and tail in the blocks from frontBlock to
\* tailBlock
CompletedResident(qq) ==
    UNION {{qq.blocks[b].data[i] : i \in Logical(qq.blocks[b]) \cap LiveSlots(qq.blocks[b])} :
               b \in {qq.frontBlock} \cup AfterFront(qq)}

--------------------------------------------------------------------------
(* Construction *)

\* the ring of initialBlockCount blocks of MAX_BLOCK_SIZE, lines 74-90
InitialRing(count, size) ==
    [i \in 1 .. count |-> [block(size) EXCEPT !.next = IF i = count THEN 1 ELSE i + 1]]

\* mutant: no spare block
initialBlockCount_NoSpare(max, MBS) == (max + MBS - 2) \div (MBS - 1)

initialBlockCount(max, MBS) == (max + MBS * 2 - 3) \div (MBS - 1)

\* mutant: no spare slot
firstBlockSize_NoSpare(max) == ceilToPow2(max)

\* line 67: the block size that holds maxSize elements and the spare slot
firstBlockSize(max) == ceilToPow2(max + 1)

\* mutant: a ring of blocks of MAX_BLOCK_SIZE as soon as the first block would
\* be larger than MAX_BLOCK_SIZE
ConcurrentQueue_SplitAboveMax(max, MBS) ==
    LET lbs == firstBlockSize(max) IN
    IF lbs > MBS
    THEN [ blocks           |-> InitialRing(initialBlockCount(max, MBS), MBS),
           frontBlock       |-> 1,
           tailBlock        |-> 1,
           largestBlockSize |-> MBS,
           enqueuing        |-> FALSE,
           dequeuing        |-> FALSE ]
    ELSE [ blocks           |-> <<[block(lbs) EXCEPT !.next = 1]>>,
           frontBlock       |-> 1,
           tailBlock        |-> 1,
           largestBlockSize |-> lbs,
           enqueuing        |-> FALSE,
           dequeuing        |-> FALSE ]

\* ConcurrentQueue(maxSize): the queue object after construction
ConcurrentQueue(max, MBS) ==
    LET lbs == firstBlockSize(max) IN
    IF lbs > MBS * 2
    THEN [ blocks           |-> InitialRing(initialBlockCount(max, MBS), MBS),
           frontBlock       |-> 1,
           tailBlock        |-> 1,
           largestBlockSize |-> MBS,
           enqueuing        |-> FALSE,
           dequeuing        |-> FALSE ]
    ELSE [ blocks           |-> <<[block(lbs) EXCEPT !.next = 1]>>,
           frontBlock       |-> 1,
           tailBlock        |-> 1,
           largestBlockSize |-> lbs,
           enqueuing        |-> FALSE,
           dequeuing        |-> FALSE ]

--------------------------------------------------------------------------
(* Thread frames *)

Pair(qq, ff) == [q |-> qq, f |-> ff]

\* a thread between calls, before its first call.  Both threads use one frame
\* layout: the locals of the running call (named as in the source) and the
\* thread's history.
IdleFrame ==
    [ pc |-> "idle", op |-> "none", ret |-> "none",
      count |-> 0,              \* producer: successful enqueues so far
      removed |-> <<>>,         \* consumer: the elements removed so far, in order
                                \* (moved out by try_dequeue, destructed by pop)
      out |-> 0,                \* consumer: the element try_dequeue moved into result,
                                \* or the element peek's pointer points at
      path |-> "none",          \* consumer: the branch the call took
      outBlock |-> 0,           \* consumer: the block and slot peek pointed at
      outIndex |-> 0,
      mallocFailed |-> FALSE,   \* make_block returned nullptr in the last call
      assertFailed |-> FALSE,   \* an assert of the source failed
      element |-> 0,
      tailBlock_ |-> 0, blockFront |-> 0, blockTail |-> 0, nextBlockTail |-> 0,
      tailBlockNext |-> 0, newBlock |-> 0, newBlockSize |-> 0,
      frontBlock_ |-> 0, nextBlock |-> 0, nextBlockFront |-> 0,
      blk |-> 0, result |-> 0,
      i |-> 0,                  \* destructor: the slot its sweep is at
      destroyed |-> <<>>,       \* destructor: what its sweep destructed, in order
                                \* (0: a slot that held no live element)
      freed |-> <<>>,           \* destructor: the blocks it freed, in order
      nested |-> "none",        \* what a call made from the element's constructor,
                                \* assignment or destructor came back with
      resume |-> "none",        \* the step that made that call
      emptyAtCall |-> FALSE,    \* the call found its front block empty, at an instant
                                \* when no completed enqueue's element was resident
      visited |-> {},           \* size_approx: the blocks its walk has been at
      loadFence |-> "none",     \* the fence executed after the call's last load of an
                                \* index that decides whether a slot is accessed
      storeFence |-> "none" ]   \* the fence executed between the call's slot access
                                \* and its store to the index that exposes the slot

\* the frame when a call returns: the locals are gone, the caller holds what
\* the call returned (ret, and out / outBlock, outIndex / result)
Return(ff, r) ==
    [IdleFrame EXCEPT !.pc = "done", !.op = ff.op, !.ret = r, !.count = ff.count,
                      !.removed = ff.removed, !.out = ff.out, !.path = ff.path,
                      !.outBlock = ff.outBlock, !.outIndex = ff.outIndex,
                      !.mallocFailed = ff.mallocFailed,
                      !.assertFailed = ff.assertFailed,
                      !.storeFence = ff.storeFence,
                      !.emptyAtCall = ff.emptyAtCall,
                      !.result = ff.result]

\* the caller is done with the returned value and may call again
Resume(ff) ==
    [IdleFrame EXCEPT !.count = ff.count, !.removed = ff.removed,
                      !.assertFailed = ff.assertFailed]

\* the frame when a call starts
Call(ff, op) ==
    [ff EXCEPT !.op = op, !.ret = "none", !.out = 0, !.outBlock = 0, !.outIndex = 0,
               !.path = "none", !.loadFence = "none", !.storeFence = "none",
               !.emptyAtCall = FALSE,
               !.mallocFailed = FALSE, !.result = 0]

CanAlloc == "enqueue"
CannotAlloc == "try_enqueue"

--------------------------------------------------------------------------
(* reentrant_guard *)

\* mutant: the guard lets every call in
reentrant_guard_enter_NoCheck(inSection) == TRUE

\* lines 519-528: the guard's constructor lets the call in iff the flag is clear
reentrant_guard_enter(inSection) == ~inSection

--------------------------------------------------------------------------
(* inner_enqueue<canAlloc>(element), one operator per step *)

\* lines 397-411: the guard, the loads of the tail block and the room test
inner_enqueue_begin(qq, ff, canAlloc) ==
    IF ~reentrant_guard_enter(qq.enqueuing)
    THEN Pair(qq, Return(Call(ff, canAlloc), "throw"))
    ELSE
    LET tailBlock_    == qq.tailBlock
        b             == qq.blocks[tailBlock_]
        blockFront    == b.localFront
        blockTail     == b.tail
        nextBlockTail == Masked(blockTail + 1, b.sizeMask)
        f0 == [Call(ff, canAlloc) EXCEPT
                         !.element = ff.count + 1,
                         !.loadFence = "acquire",
                         !.tailBlock_ = tailBlock_,
                         !.blockTail = blockTail, !.nextBlockTail = nextBlockTail]
        q0 == [qq EXCEPT !.enqueuing = TRUE]
    IN  IF nextBlockTail # blockFront
        THEN Pair(q0, [f0 EXCEPT !.pc = "construct"])
        ELSE LET q1 == [q0 EXCEPT !.blocks[tailBlock_].localFront = b.front]
             IN  IF nextBlockTail # b.front
                 THEN Pair(q1, [f0 EXCEPT !.pc = "construct"])
                 ELSE Pair(q1, [f0 EXCEPT !.pc = "checkNext"])

\* lines 414-415: placement new into the tail block's slot
inner_enqueue_construct(qq, ff) ==
    Pair([qq EXCEPT !.blocks[ff.tailBlock_].data[ff.blockTail] = ff.element],
         [ff EXCEPT !.pc = "publish"])

\* lines 417-418 and 486: the release fence, publish the slot, return true
inner_enqueue_publish(qq, ff) ==
    Pair([qq EXCEPT !.blocks[ff.tailBlock_].tail = ff.nextBlockTail, !.enqueuing = FALSE],
         Return([ff EXCEPT !.count = ff.count + 1, !.storeFence = "release"], "true"))

\* mutant: the next block is taken whenever it is not the tail block itself,
\* also when it is the front block
inner_enqueue_checkNext_IntoFront(qq, ff) ==
    IF qq.blocks[ff.tailBlock_].next # ff.tailBlock_
    THEN Pair(qq, [ff EXCEPT !.pc = "reuseLoad"])
    ELSE IF ff.op = CanAlloc
    THEN Pair(qq, [ff EXCEPT !.pc = "alloc"])
    ELSE Pair([qq EXCEPT !.enqueuing = FALSE], Return(ff, "false"))

\* mutant: the allocation mode is ignored, a full ring always grows
inner_enqueue_checkNext_AlwaysAlloc(qq, ff) ==
    IF qq.blocks[ff.tailBlock_].next # qq.frontBlock
    THEN Pair(qq, [ff EXCEPT !.pc = "reuseLoad"])
    ELSE Pair(qq, [ff EXCEPT !.pc = "alloc"])

\* mutant: the allocation mode is ignored, a full ring never grows
inner_enqueue_checkNext_NeverAlloc(qq, ff) ==
    IF qq.blocks[ff.tailBlock_].next # qq.frontBlock
    THEN Pair(qq, [ff EXCEPT !.pc = "reuseLoad"])
    ELSE Pair([qq EXCEPT !.enqueuing = FALSE], Return(ff, "false"))

\* mutant: a full tail block is never followed by a reuse of the next block
inner_enqueue_checkNext_NoReuse(qq, ff) ==
    IF ff.op = CanAlloc
    THEN Pair(qq, [ff EXCEPT !.pc = "alloc"])
    ELSE Pair([qq EXCEPT !.enqueuing = FALSE], Return(ff, "false"))

\* lines 422, 449, 476-478: the tail block is full; is the next block free?
inner_enqueue_checkNext(qq, ff) ==
    IF qq.blocks[ff.tailBlock_].next # qq.frontBlock
    THEN Pair(qq, [ff EXCEPT !.pc = "reuseLoad"])
    ELSE IF ff.op = CanAlloc
    THEN Pair(qq, [ff EXCEPT !.pc = "alloc"])
    ELSE Pair([qq EXCEPT !.enqueuing = FALSE], Return(ff, "false"))

\* lines 431-439: load the next block's indices, assert that it is empty
inner_enqueue_reuseLoad(qq, ff) ==
    LET tailBlockNext  == qq.blocks[ff.tailBlock_].next
        nextBlockFront == qq.blocks[tailBlockNext].front
        nextBlockTail  == qq.blocks[tailBlockNext].tail
        q1 == [qq EXCEPT !.blocks[tailBlockNext].localFront = nextBlockFront]
    IN  IF nextBlockFront = nextBlockTail
        THEN Pair(q1, [ff EXCEPT !.pc = "reuseConstruct", !.tailBlockNext = tailBlockNext,
                                 !.nextBlockTail = nextBlockTail])
        ELSE Pair(q1, [ff EXCEPT !.pc = "abort", !.assertFailed = TRUE])

\* lines 441-442: placement new into the next block's slot
inner_enqueue_reuseConstruct(qq, ff) ==
    Pair([qq EXCEPT !.blocks[ff.tailBlockNext].data[ff.nextBlockTail] = ff.element],
         [ff EXCEPT !.pc = "reusePublish"])

\* mutant: the next block's tail is left where it was
inner_enqueue_reusePublish_NoTail(qq, ff) ==
    Pair(qq, [ff EXCEPT !.pc = "reuseAdvance"])

\* line 444: advance the next block's tail
inner_enqueue_reusePublish(qq, ff) ==
    Pair([qq EXCEPT !.blocks[ff.tailBlockNext].tail =
                        Masked(ff.nextBlockTail + 1, qq.blocks[ff.tailBlockNext].sizeMask)],
         [ff EXCEPT !.pc = "reuseAdvance"])

\* lines 446-447 and 486: move tailBlock to the next block, return true
inner_enqueue_reuseAdvance(qq, ff) ==
    Pair([qq EXCEPT !.tailBlock = ff.tailBlockNext, !.enqueuing = FALSE],
         Return([ff EXCEPT !.count = ff.count + 1], "true"))

\* mutant: every new block has MAX_BLOCK_SIZE slots, whatever the watermark
newBlockSize_MaxBlockSize(qq) == MAX_BLOCK_SIZE

\* mutant: the size doubles without the cap at MAX_BLOCK_SIZE
newBlockSize_AlwaysDouble(qq) == qq.largestBlockSize * 2

\* line 451: the size of the block to create
newBlockSize(qq) ==
    IF qq.largestBlockSize >= MAX_BLOCK_SIZE
    THEN qq.largestBlockSize
    ELSE qq.largestBlockSize * 2

\* mutant: the watermark is raised before the allocation's result is looked at
inner_enqueue_alloc_CommitFirst(qq, ff, mallocOk) ==
    LET size     == newBlockSize(qq)
        newBlock == make_block(qq, mallocOk)
    IN  IF newBlock = 0
        THEN Pair([qq EXCEPT !.enqueuing = FALSE, !.largestBlockSize = size],
                  Return([ff EXCEPT !.mallocFailed = TRUE], "false"))
        ELSE Pair([qq EXCEPT !.blocks = Append(qq.blocks, block(size)),
                             !.largestBlockSize = size],
                  [ff EXCEPT !.pc = "newConstruct", !.newBlock = newBlock,
                             !.newBlockSize = size])

\* lines 451-457: allocate a block; on failure return false
inner_enqueue_alloc(qq, ff, mallocOk) ==
    LET size     == newBlockSize(qq)
        newBlock == make_block(qq, mallocOk)
    IN  IF newBlock = 0
        THEN Pair([qq EXCEPT !.enqueuing = FALSE],
                  Return([ff EXCEPT !.mallocFailed = TRUE], "false"))
        ELSE Pair([qq EXCEPT !.blocks = Append(qq.blocks, block(size)),
                             !.largestBlockSize = size],
                  [ff EXCEPT !.pc = "newConstruct", !.newBlock = newBlock,
                             !.newBlockSize = size])

\* mutant: the new block's next is the front block as it is now, not the tail
\* block's successor
inner_enqueue_newConstruct_NextIsFront(qq, ff) ==
    Pair([qq EXCEPT !.blocks[ff.newBlock].data[0] = ff.element,
                    !.blocks[ff.newBlock].tail = 1,
                    !.blocks[ff.newBlock].localTail = 1,
                    !.blocks[ff.newBlock].next = qq.frontBlock],
         [ff EXCEPT !.pc = "link"])

\* lines 459-464: construct into slot 0 of the new block, set its tail and its next
inner_enqueue_newConstruct(qq, ff) ==
    Pair([qq EXCEPT !.blocks[ff.newBlock].data[0] = ff.element,
                    !.blocks[ff.newBlock].tail = 1,
                    !.blocks[ff.newBlock].localTail = 1,
                    !.blocks[ff.newBlock].next = qq.blocks[ff.tailBlock_].next],
         [ff EXCEPT !.pc = "link"])

\* line 465: splice the new block in after the tail block
inner_enqueue_link(qq, ff) ==
    Pair([qq EXCEPT !.blocks[ff.tailBlock_].next = ff.newBlock],
         [ff EXCEPT !.pc = "newAdvance"])

\* lines 473-474 and 486: move tailBlock to the new block, return true
inner_enqueue_newAdvance(qq, ff) ==
    Pair([qq EXCEPT !.tailBlock = ff.newBlock, !.enqueuing = FALSE],
         Return([ff EXCEPT !.count = ff.count + 1], "true"))

\* inner_enqueue: the step at the frame's position
inner_enqueue_step(qq, ff, mallocOk) ==
    CASE ff.pc = "construct"      -> inner_enqueue_construct(qq, ff)
      [] ff.pc = "publish"        -> inner_enqueue_publish(qq, ff)
      [] ff.pc = "checkNext"      -> inner_enqueue_checkNext(qq, ff)
      [] ff.pc = "reuseLoad"      -> inner_enqueue_reuseLoad(qq, ff)
      [] ff.pc = "reuseConstruct" -> inner_enqueue_reuseConstruct(qq, ff)
      [] ff.pc = "reusePublish"   -> inner_enqueue_reusePublish(qq, ff)
      [] ff.pc = "reuseAdvance"   -> inner_enqueue_reuseAdvance(qq, ff)
      [] ff.pc = "alloc"          -> inner_enqueue_alloc(qq, ff, mallocOk)
      [] ff.pc = "newConstruct"   -> inner_enqueue_newConstruct(qq, ff)
      [] ff.pc = "link"           -> inner_enqueue_link(qq, ff)
      [] ff.pc = "newAdvance"     -> inner_enqueue_newAdvance(qq, ff)

\* try_enqueue / enqueue, lines 138-166
try_enqueue(qq, ff) == inner_enqueue_begin(qq, ff, CannotAlloc)
enqueue(qq, ff) == inner_enqueue_begin(qq, ff, CanAlloc)

--------------------------------------------------------------------------
(* try_dequeue, one operator per step *)

\* lines 175, 194-198: the guard, the loads of the front block and the emptiness test
try_dequeue_begin(qq, ff) ==
    IF ~reentrant_guard_enter(qq.dequeuing)
    THEN Pair(qq, Return(Call(ff, "try_dequeue"), "throw"))
    ELSE
    LET frontBlock_ == qq.frontBlock
        b           == qq.blocks[frontBlock_]
        blockTail   == b.localTail
        blockFront  == b.front
        f0 == [Call(ff, "try_dequeue") EXCEPT !.frontBlock_ = frontBlock_, !.blockFront = blockFront,
                                             !.path = "front"]
        q0 == [qq EXCEPT !.dequeuing = TRUE]
    IN  IF blockFront # blockTail
        THEN Pair(q0, [f0 EXCEPT !.pc = "nonEmpty", !.loadFence = "acquire"])
        ELSE LET q1 == [q0 EXCEPT !.blocks[frontBlock_].localTail = b.tail]
             IN  IF blockFront # b.tail
                 THEN Pair(q1, [f0 EXCEPT !.pc = "nonEmpty", !.loadFence = "acquire"])
                 ELSE Pair(q1, [f0 EXCEPT !.pc = "checkTail",
                                          !.emptyAtCall = (CompletedResident(q1) = {})])

\* lines 203-205: move out and destruct the front block's front element
try_dequeue_nonEmpty(qq, ff) ==
    Pair([qq EXCEPT !.blocks[ff.frontBlock_].data[ff.blockFront] = 0],
         [ff EXCEPT !.pc = "storeFront", !.out = qq.blocks[ff.frontBlock_].data[ff.blockFront],
                    !.removed = Append(ff.removed, qq.blocks[ff.frontBlock_].data[ff.blockFront])])

\* mutant: front is left where it was
try_dequeue_storeFront_NoAdvance(qq, ff) ==
    Pair([qq EXCEPT !.dequeuing = FALSE],
         Return([ff EXCEPT !.storeFence = "release"], "true"))

\* mutant: front is advanced without the mask
try_dequeue_storeFront_NoMask(qq, ff) ==
    Pair([qq EXCEPT !.blocks[ff.frontBlock_].front = ff.blockFront + 1,
                    !.dequeuing = FALSE],
         Return([ff EXCEPT !.storeFence = "release"], "true"))

\* lines 207-210 and 261: the release fence, advance front, return true
try_dequeue_storeFront(qq, ff) ==
    Pair([qq EXCEPT !.blocks[ff.frontBlock_].front =
                        Masked(ff.blockFront + 1, qq.blocks[ff.frontBlock_].sizeMask),
                    !.dequeuing = FALSE],
         Return([ff EXCEPT !.storeFence = "release"], "true"))

\* mutant: an empty-looking front block is reported as an empty queue
try_dequeue_checkTail_FrontOnly(qq, ff) ==
    Pair([qq EXCEPT !.dequeuing = FALSE], Return(ff, "false"))

\* lines 212 and 258: the front block looked empty; is it the tail block?
try_dequeue_checkTail(qq, ff) ==
    IF ff.frontBlock_ # qq.tailBlock
    THEN Pair(qq, [ff EXCEPT !.pc = "recheck"])
    ELSE Pair([qq EXCEPT !.dequeuing = FALSE], Return(ff, "false"))

\* mutant: a single check, the front block is not read again before advancing
try_dequeue_recheck_SingleCheck(qq, ff) ==
    Pair(qq, [ff EXCEPT !.pc = "loadNext", !.path = "next"])

\* mutant: a retry loop, the call goes round until the front block has an element
try_dequeue_recheck_Retry(qq, ff) ==
    LET frontBlock_ == qq.frontBlock
        b           == qq.blocks[frontBlock_]
        blockTail   == b.tail
        blockFront  == b.front
        q1 == [qq EXCEPT !.blocks[frontBlock_].localTail = blockTail]
        f1 == [ff EXCEPT !.frontBlock_ = frontBlock_, !.blockFront = blockFront,
                         !.path = IF blockFront # blockTail THEN "recheck" ELSE "next"]
    IN  IF blockFront # blockTail
        THEN Pair(q1, [f1 EXCEPT !.pc = "nonEmpty"])
        ELSE Pair(q1, [f1 EXCEPT !.pc = "checkTail"])

\* lines 215-223: read the front block again and the acquire fence after the loads
try_dequeue_recheck(qq, ff) ==
    LET frontBlock_ == qq.frontBlock
        b           == qq.blocks[frontBlock_]
        blockTail   == b.tail
        blockFront  == b.front
        q1 == [qq EXCEPT !.blocks[frontBlock_].localTail = blockTail]
        f1 == [ff EXCEPT !.frontBlock_ = frontBlock_, !.blockFront = blockFront,
                         !.loadFence = "acquire",
                         !.path = IF blockFront # blockTail THEN "recheck" ELSE "next"]
    IN  IF blockFront # blockTail
        THEN Pair(q1, [f1 EXCEPT !.pc = "nonEmpty"])
        ELSE Pair(q1, [f1 EXCEPT !.pc = "loadNext"])

\* line 226: the front block is empty, load its successor
try_dequeue_loadNext(qq, ff) ==
    Pair(qq, [ff EXCEPT !.pc = "loadNextIndices",
                        !.nextBlock = qq.blocks[ff.frontBlock_].next])

\* lines 231-237: load the successor's indices, assert that it is not empty
try_dequeue_loadNextIndices(qq, ff) ==
    LET nextBlockFront == qq.blocks[ff.nextBlock].front
        nextBlockTail  == qq.blocks[ff.nextBlock].tail
        q1 == [qq EXCEPT !.blocks[ff.nextBlock].localTail = nextBlockTail]
    IN  IF nextBlockFront # nextBlockTail
        THEN Pair(q1, [ff EXCEPT !.pc = "advance", !.nextBlockFront = nextBlockFront])
        ELSE Pair(q1, [ff EXCEPT !.pc = "abort", !.assertFailed = TRUE])

\* lines 241-242: move frontBlock to the successor
try_dequeue_advance(qq, ff) ==
    Pair([qq EXCEPT !.frontBlock = ff.nextBlock],
         [ff EXCEPT !.pc = "takeNext", !.frontBlock_ = ff.nextBlock])

\* lines 246-249: move out and destruct the successor's front element
try_dequeue_takeNext(qq, ff) ==
    Pair([qq EXCEPT !.blocks[ff.frontBlock_].data[ff.nextBlockFront] = 0],
         [ff EXCEPT !.pc = "storeNextFront", !.out = qq.blocks[ff.frontBlock_].data[ff.nextBlockFront],
                    !.removed = Append(ff.removed, qq.blocks[ff.frontBlock_].data[ff.nextBlockFront])])

\* lines 251-254 and 261: the release fence, advance the successor's front, return true
try_dequeue_storeNextFront(qq, ff) ==
    Pair([qq EXCEPT !.blocks[ff.frontBlock_].front =
                        Masked(ff.nextBlockFront + 1, qq.blocks[ff.frontBlock_].sizeMask),
                    !.dequeuing = FALSE],
         Return([ff EXCEPT !.storeFence = "release"], "true"))

\* try_dequeue: the step at the frame's position
try_dequeue_step(qq, ff) ==
    CASE ff.pc = "nonEmpty"        -> try_dequeue_nonEmpty(qq, ff)
      [] ff.pc = "storeFront"      -> try_dequeue_storeFront(qq, ff)
      [] ff.pc = "checkTail"       -> try_dequeue_checkTail(qq, ff)
      [] ff.pc = "recheck"         -> try_dequeue_recheck(qq, ff)
      [] ff.pc = "loadNext"        -> try_dequeue_loadNext(qq, ff)
      [] ff.pc = "loadNextIndices" -> try_dequeue_loadNextIndices(qq, ff)
      [] ff.pc = "advance"         -> try_dequeue_advance(qq, ff)
      [] ff.pc = "takeNext"        -> try_dequeue_takeNext(qq, ff)
      [] ff.pc = "storeNextFront"  -> try_dequeue_storeNextFront(qq, ff)

--------------------------------------------------------------------------
(* peek, one operator per step.  The pointer it returns is the pair          *)
(* (outBlock, outIndex); out is the element it points at.                    *)

\* line 282 / 301: return a pointer to a slot
peek_return(qq, ff, blockId, index) ==
    Pair([qq EXCEPT !.dequeuing = FALSE],
         Return([ff EXCEPT !.out = qq.blocks[blockId].data[index],
                           !.outBlock = blockId, !.outIndex = index], "pointer"))

\* lines 272, 275-282: the guard, the loads of the front block and the emptiness test
peek_begin(qq, ff) ==
    IF ~reentrant_guard_enter(qq.dequeuing)
    THEN Pair(qq, Return(Call(ff, "peek"), "throw"))
    ELSE
    LET frontBlock_ == qq.frontBlock
        b           == qq.blocks[frontBlock_]
        blockTail   == b.localTail
        blockFront  == b.front
        f0 == [Call(ff, "peek") EXCEPT !.frontBlock_ = frontBlock_, !.blockFront = blockFront,
                                      !.path = "front"]
        q0 == [qq EXCEPT !.dequeuing = TRUE]
    IN  IF blockFront # blockTail
        THEN peek_return(q0, f0, frontBlock_, blockFront)
        ELSE LET q1 == [q0 EXCEPT !.blocks[frontBlock_].localTail = b.tail]
             IN  IF blockFront # b.tail
                 THEN peek_return(q1, f0, frontBlock_, blockFront)
                 ELSE Pair(q1, [f0 EXCEPT !.pc = "checkTail",
                                          !.emptyAtCall = (CompletedResident(q1) = {})])

\* lines 284 and 304: the front block looked empty; is it the tail block?
peek_checkTail(qq, ff) ==
    IF ff.frontBlock_ # qq.tailBlock
    THEN Pair(qq, [ff EXCEPT !.pc = "recheck"])
    ELSE Pair([qq EXCEPT !.dequeuing = FALSE], Return(ff, "null"))

\* lines 286-293: read the front block again
peek_recheck(qq, ff) ==
    LET frontBlock_ == qq.frontBlock
        b           == qq.blocks[frontBlock_]
        blockTail   == b.tail
        blockFront  == b.front
        q1 == [qq EXCEPT !.blocks[frontBlock_].localTail = blockTail]
        f1 == [ff EXCEPT !.frontBlock_ = frontBlock_, !.blockFront = blockFront,
                         !.path = IF blockFront # blockTail THEN "recheck" ELSE "next"]
    IN  IF blockFront # blockTail
        THEN peek_return(q1, f1, frontBlock_, blockFront)
        ELSE Pair(q1, [f1 EXCEPT !.pc = "loadNext"])

\* line 295: the front block is empty, load its successor
peek_loadNext(qq, ff) ==
    Pair(qq, [ff EXCEPT !.pc = "loadNextIndices",
                        !.nextBlock = qq.blocks[ff.frontBlock_].next])

\* mutant: the pointer is taken in the drained front block
peek_loadNextIndices_FrontBlock(qq, ff) ==
    LET nextBlockFront == qq.blocks[ff.nextBlock].front
    IN  IF nextBlockFront # qq.blocks[ff.nextBlock].tail
        THEN peek_return(qq, ff, ff.frontBlock_, qq.blocks[ff.frontBlock_].front)
        ELSE Pair(qq, [ff EXCEPT !.pc = "abort", !.assertFailed = TRUE])

\* lines 297-301: load the successor's front, assert that it is not empty,
\* return a pointer to its front slot
peek_loadNextIndices(qq, ff) ==
    LET nextBlockFront == qq.blocks[ff.nextBlock].front
    IN  IF nextBlockFront # qq.blocks[ff.nextBlock].tail
        THEN peek_return(qq, ff, ff.nextBlock, nextBlockFront)
        ELSE Pair(qq, [ff EXCEPT !.pc = "abort", !.assertFailed = TRUE])

\* peek: the step at the frame's position
peek_step(qq, ff) ==
    CASE ff.pc = "checkTail"       -> peek_checkTail(qq, ff)
      [] ff.pc = "recheck"         -> peek_recheck(qq, ff)
      [] ff.pc = "loadNext"        -> peek_loadNext(qq, ff)
      [] ff.pc = "loadNextIndices" -> peek_loadNextIndices(qq, ff)

--------------------------------------------------------------------------
(* pop, one operator per step *)

\* lines 312, 315-319: the guard, the loads of the front block and the emptiness test
pop_begin(qq, ff) ==
    IF ~reentrant_guard_enter(qq.dequeuing)
    THEN Pair(qq, Return(Call(ff, "pop"), "throw"))
    ELSE
    LET frontBlock_ == qq.frontBlock
        b           == qq.blocks[frontBlock_]
        blockTail   == b.localTail
        blockFront  == b.front
        f0 == [Call(ff, "pop") EXCEPT !.frontBlock_ = frontBlock_, !.blockFront = blockFront,
                                             !.path = "front"]
        q0 == [qq EXCEPT !.dequeuing = TRUE]
    IN  IF blockFront # blockTail
        THEN Pair(q0, [f0 EXCEPT !.pc = "nonEmpty", !.loadFence = "acquire"])
        ELSE LET q1 == [q0 EXCEPT !.blocks[frontBlock_].localTail = b.tail]
             IN  IF blockFront # b.tail
                 THEN Pair(q1, [f0 EXCEPT !.pc = "nonEmpty", !.loadFence = "acquire"])
                 ELSE Pair(q1, [f0 EXCEPT !.pc = "checkTail",
                                          !.emptyAtCall = (CompletedResident(q1) = {})])

\* lines 323-324: destruct the front block's front element
pop_nonEmpty(qq, ff) ==
    Pair([qq EXCEPT !.blocks[ff.frontBlock_].data[ff.blockFront] = 0],
         [ff EXCEPT !.pc = "storeFront",
                    !.removed = Append(ff.removed, qq.blocks[ff.frontBlock_].data[ff.blockFront])])

\* lines 326-329 and 370: the fence of line 328 (an acquire fence), advance front,
\* return true
pop_storeFront(qq, ff) ==
    Pair([qq EXCEPT !.blocks[ff.frontBlock_].front =
                        Masked(ff.blockFront + 1, qq.blocks[ff.frontBlock_].sizeMask),
                    !.dequeuing = FALSE],
         Return([ff EXCEPT !.storeFence = "acquire"], "true"))

\* lines 331 and 367: the front block looked empty; is it the tail block?
pop_checkTail(qq, ff) ==
    IF ff.frontBlock_ # qq.tailBlock
    THEN Pair(qq, [ff EXCEPT !.pc = "recheck"])
    ELSE Pair([qq EXCEPT !.dequeuing = FALSE], Return(ff, "false"))

\* lines 333-340: read the front block again and the acquire fence after the loads
pop_recheck(qq, ff) ==
    LET frontBlock_ == qq.frontBlock
        b           == qq.blocks[frontBlock_]
        blockTail   == b.tail
        blockFront  == b.front
        q1 == [qq EXCEPT !.blocks[frontBlock_].localTail = blockTail]
        f1 == [ff EXCEPT !.frontBlock_ = frontBlock_, !.blockFront = blockFront,
                         !.loadFence = "acquire",
                         !.path = IF blockFront # blockTail THEN "recheck" ELSE "next"]
    IN  IF blockFront # blockTail
        THEN Pair(q1, [f1 EXCEPT !.pc = "nonEmpty"])
        ELSE Pair(q1, [f1 EXCEPT !.pc = "loadNext"])

\* line 343: the front block is empty, load its successor
pop_loadNext(qq, ff) ==
    Pair(qq, [ff EXCEPT !.pc = "loadNextIndices",
                        !.nextBlock = qq.blocks[ff.frontBlock_].next])

\* mutant: the successor's tail is cached in localFront, the producer's shadow
pop_loadNextIndices_LocalFront(qq, ff) ==
    LET nextBlockFront == qq.blocks[ff.nextBlock].front
        nextBlockTail  == qq.blocks[ff.nextBlock].tail
        q1 == [qq EXCEPT !.blocks[ff.nextBlock].localFront = nextBlockTail]
    IN  IF nextBlockFront # nextBlockTail
        THEN Pair(q1, [ff EXCEPT !.pc = "advance", !.nextBlockFront = nextBlockFront])
        ELSE Pair(q1, [ff EXCEPT !.pc = "abort", !.assertFailed = TRUE])

\* lines 345-349: load the successor's indices, assert that it is not empty
pop_loadNextIndices(qq, ff) ==
    LET nextBlockFront == qq.blocks[ff.nextBlock].front
        nextBlockTail  == qq.blocks[ff.nextBlock].tail
        q1 == [qq EXCEPT !.blocks[ff.nextBlock].localTail = nextBlockTail]
    IN  IF nextBlockFront # nextBlockTail
        THEN Pair(q1, [ff EXCEPT !.pc = "advance", !.nextBlockFront = nextBlockFront])
        ELSE Pair(q1, [ff EXCEPT !.pc = "abort", !.assertFailed = TRUE])

\* mutant: only the local copy moves, frontBlock is not stored
pop_advance_LocalOnly(qq, ff) ==
    Pair(qq, [ff EXCEPT !.pc = "takeNext", !.frontBlock_ = ff.nextBlock])

\* lines 352-353: move frontBlock to the successor
pop_advance(qq, ff) ==
    Pair([qq EXCEPT !.frontBlock = ff.nextBlock],
         [ff EXCEPT !.pc = "takeNext", !.frontBlock_ = ff.nextBlock])

\* lines 357-358: destruct the successor's front element
pop_takeNext(qq, ff) ==
    Pair([qq EXCEPT !.blocks[ff.frontBlock_].data[ff.nextBlockFront] = 0],
         [ff EXCEPT !.pc = "storeNextFront",
                    !.removed = Append(ff.removed, qq.blocks[ff.frontBlock_].data[ff.nextBlockFront])])

\* lines 360-363 and 370: the release fence, advance the successor's front, return true
pop_storeNextFront(qq, ff) ==
    Pair([qq EXCEPT !.blocks[ff.frontBlock_].front =
                        Masked(ff.nextBlockFront + 1, qq.blocks[ff.frontBlock_].sizeMask),
                    !.dequeuing = FALSE],
         Return([ff EXCEPT !.storeFence = "release"], "true"))

\* pop: the step at the frame's position
pop_step(qq, ff) ==
    CASE ff.pc = "nonEmpty"        -> pop_nonEmpty(qq, ff)
      [] ff.pc = "storeFront"      -> pop_storeFront(qq, ff)
      [] ff.pc = "checkTail"       -> pop_checkTail(qq, ff)
      [] ff.pc = "recheck"         -> pop_recheck(qq, ff)
      [] ff.pc = "loadNext"        -> pop_loadNext(qq, ff)
      [] ff.pc = "loadNextIndices" -> pop_loadNextIndices(qq, ff)
      [] ff.pc = "advance"         -> pop_advance(qq, ff)
      [] ff.pc = "takeNext"        -> pop_takeNext(qq, ff)
      [] ff.pc = "storeNextFront"  -> pop_storeNextFront(qq, ff)

--------------------------------------------------------------------------
(* size_approx, one operator per step; either thread may call it *)

\* lines 377-379
size_approx_begin(qq, ff) ==
    Pair(qq, [Call(ff, "size_approx") EXCEPT !.pc = "loadFront",
                    !.frontBlock_ = qq.frontBlock, !.blk = qq.frontBlock,
                    !.visited = {qq.frontBlock}])

\* lines 381-382
size_approx_loadFront(qq, ff) ==
    Pair(qq, [ff EXCEPT !.pc = "loadTail", !.blockFront = qq.blocks[ff.blk].front])

\* mutant: the difference is not masked
blockSize_NoMask(blockTail, blockFront, sizeMask) == (blockTail - blockFront) % SizeRange

\* the term a block adds to the result, line 384
blockSize(blockTail, blockFront, sizeMask) == Masked(blockTail - blockFront, sizeMask)

\* lines 383-384
size_approx_loadTail(qq, ff) ==
    Pair(qq, [ff EXCEPT !.pc = "next",
                        !.result = (ff.result + blockSize(qq.blocks[ff.blk].tail, ff.blockFront,
                                                          qq.blocks[ff.blk].sizeMask))
                                   % SizeRange])

\* mutant: the walk ends at the queue's front block as it is now, not at the
\* block the walk started from
size_approx_next_LiveFront(qq, ff) ==
    LET nxt == qq.blocks[ff.blk].next
    IN  IF nxt # qq.frontBlock
        THEN Pair(qq, [ff EXCEPT !.pc = "loadFront", !.blk = nxt, !.blockFront = 0,
                                 !.visited = ff.visited \cup {nxt}])
        ELSE Pair(qq, Return(ff, "size"))

\* mutant: the walk stops after the front block
size_approx_next_FrontOnly(qq, ff) ==
    Pair(qq, Return(ff, "size"))

\* lines 385-387
size_approx_next(qq, ff) ==
    LET nxt == qq.blocks[ff.blk].next
    IN  IF nxt # ff.frontBlock_
        THEN Pair(qq, [ff EXCEPT !.pc = "loadFront", !.blk = nxt, !.blockFront = 0,
                                 !.visited = ff.visited \cup {nxt}])
        ELSE Pair(qq, Return(ff, "size"))

size_approx_step(qq, ff) ==
    CASE ff.pc = "loadFront" -> size_approx_loadFront(qq, ff)
      [] ff.pc = "loadTail"  -> size_approx_loadTail(qq, ff)
      [] ff.pc = "next"      -> size_approx_next(qq, ff)

--------------------------------------------------------------------------
(* ~ConcurrentQueue, one operator per step.  The thread that destroys the  *)
(* queue has it to itself (lines 106-107).                                 *)

Destructor == "~ConcurrentQueue"

\* lines 114-115
dtor_begin(qq, ff) ==
    Pair(qq, [Call(ff, Destructor) EXCEPT !.pc = "loadBlock",
                    !.frontBlock_ = qq.frontBlock, !.blk = qq.frontBlock])

\* mutant: the sweep starts at slot 0 instead of the block's front
dtor_loadBlock_FromZero(qq, ff) ==
    Pair(qq, [ff EXCEPT !.pc = "sweep",
                        !.nextBlock = qq.blocks[ff.blk].next,
                        !.blockFront = qq.blocks[ff.blk].front,
                        !.blockTail = qq.blocks[ff.blk].tail,
                        !.i = 0])

\* lines 117-119 and the loop's initialisation on line 121
dtor_loadBlock(qq, ff) ==
    Pair(qq, [ff EXCEPT !.pc = "sweep",
                        !.nextBlock = qq.blocks[ff.blk].next,
                        !.blockFront = qq.blocks[ff.blk].front,
                        !.blockTail = qq.blocks[ff.blk].tail,
                        !.i = qq.blocks[ff.blk].front])

\* lines 121-125: one turn of the loop, destructing the element in slot i
dtor_sweep(qq, ff) ==
    IF ff.i # ff.blockTail
    THEN Pair([qq EXCEPT !.blocks[ff.blk].data[ff.i] = 0],
              [ff EXCEPT !.destroyed = Append(ff.destroyed, qq.blocks[ff.blk].data[ff.i]),
                         !.i = Masked(ff.i + 1, qq.blocks[ff.blk].sizeMask)])
    ELSE Pair(qq, [ff EXCEPT !.pc = "free"])

\* lines 127-131: free the block, go on to the next one until the ring is closed
dtor_free(qq, ff) ==
    LET f1 == [ff EXCEPT !.freed = Append(ff.freed, ff.blk), !.blk = ff.nextBlock]
    IN  IF ff.nextBlock # ff.frontBlock_
        THEN Pair(qq, [f1 EXCEPT !.pc = "loadBlock"])
        ELSE Pair(qq, [f1 EXCEPT !.pc = "destroyed"])

dtor_step(qq, ff) ==
    CASE ff.pc = "loadBlock" -> dtor_loadBlock(qq, ff)
      [] ff.pc = "sweep"     -> dtor_sweep(qq, ff)
      [] ff.pc = "free"      -> dtor_free(qq, ff)

--------------------------------------------------------------------------
(* A call run from its first step to its return with no step of the other  *)
(* thread in between.                                                      *)

Running(ff) == ff.pc \notin {"idle", "done", "abort", "destroyed"}

ConsumerStep(qq, ff) ==
    CASE ff.op = "try_dequeue" -> try_dequeue_step(qq, ff)
      [] ff.op = "peek"        -> peek_step(qq, ff)
      [] ff.op = "pop"         -> pop_step(qq, ff)
      [] ff.op = "size_approx" -> size_approx_step(qq, ff)

ProducerStep(qq, ff, mallocOk) ==
    CASE ff.op \in {CanAlloc, CannotAlloc} -> inner_enqueue_step(qq, ff, mallocOk)
      [] ff.op = "size_approx"             -> size_approx_step(qq, ff)

RECURSIVE RunConsumer(_)
RunConsumer(r) == IF Running(r.f) THEN RunConsumer(ConsumerStep(r.q, r.f)) ELSE r

RECURSIVE RunProducer(_, _)
RunProducer(r, mallocOk) ==
    IF Running(r.f) THEN RunProducer(ProducerStep(r.q, r.f, mallocOk), mallocOk) ELSE r

TryDequeueAlone(qq, ff) == RunConsumer(try_dequeue_begin(qq, ff))
PeekAlone(qq, ff) == RunConsumer(peek_begin(qq, ff))
PopAlone(qq, ff) == RunConsumer(pop_begin(qq, ff))
SizeApproxAlone(qq, ff) == RunConsumer(size_approx_begin(qq, ff))
TryEnqueueAlone(qq, ff) == RunProducer(try_enqueue(qq, ff), TRUE)
EnqueueAlone(qq, ff, mallocOk) == RunProducer(enqueue(qq, ff), mallocOk)

--------------------------------------------------------------------------
(* Calls on the same queue made from inside a call, by the element's       *)
(* constructor (lines 415, 442, 459), move assignment (lines 204, 248) or  *)
(* destructor (lines 205, 249, 324, 358).  The nested call runs on the     *)
(* calling thread, to its end, while the outer call waits in that step.    *)

NestedFrame(ff) == [IdleFrame EXCEPT !.count = ff.count, !.removed = ff.removed]

EnqueueOps == {CanAlloc, CannotAlloc}
DequeueOps == {"try_dequeue", "peek", "pop"}

\* the steps of inner_enqueue that run the element's constructor
ConstructSteps == {"construct", "reuseConstruct", "newConstruct"}
\* the steps of try_dequeue and pop that run the element's assignment or destructor
TakeSteps == {"nonEmpty", "takeNext"}

\* the element's constructor calls enqueue or try_enqueue
nested_enqueue(qq, ff, op) ==
    LET r == RunProducer(inner_enqueue_begin(qq, NestedFrame(ff), op), TRUE)
    IN  Pair(r.q, [ff EXCEPT !.pc = "nested", !.resume = ff.pc, !.nested = r.f.ret])

\* the element's assignment or destructor calls try_dequeue, peek or pop
nested_dequeue(qq, ff, op) ==
    LET r == CASE op = "try_dequeue" -> TryDequeueAlone(qq, NestedFrame(ff))
               [] op = "peek"        -> PeekAlone(qq, NestedFrame(ff))
               [] op = "pop"         -> PopAlone(qq, NestedFrame(ff))
    IN  Pair(r.q, [ff EXCEPT !.pc = "nested", !.resume = ff.pc, !.nested = r.f.ret])

\* line 522 in a build with assertions: the process is aborted
guard_assert(qq, ff) == Pair(qq, [ff EXCEPT !.pc = "abort", !.assertFailed = TRUE])

\* mutant: the exception leaves the outer call with its flag still set
inner_enqueue_unwind_KeepFlag(qq, ff) ==
    IF ff.nested = "throw"
    THEN Pair(qq, Return(ff, "throw"))
    ELSE Pair(qq, [ff EXCEPT !.pc = ff.resume, !.nested = "none", !.resume = "none"])

\* the nested call is over.  If it threw (line 524), the exception leaves the
\* outer call through its guard's destructor (line 530), or, thrown out of a
\* destructor, terminates the process; otherwise the outer step goes on.
inner_enqueue_unwind(qq, ff) ==
    IF ff.nested = "throw"
    THEN Pair([qq EXCEPT !.enqueuing = FALSE], Return(ff, "throw"))
    ELSE Pair(qq, [ff EXCEPT !.pc = ff.resume, !.nested = "none", !.resume = "none"])

dequeue_unwind(qq, ff, fromDestructor) ==
    IF ff.nested = "throw"
    THEN IF fromDestructor \/ ff.op = "pop"
         THEN Pair(qq, [ff EXCEPT !.pc = "abort"])
         ELSE Pair([qq EXCEPT !.dequeuing = FALSE], Return(ff, "throw"))
    ELSE Pair(qq, [ff EXCEPT !.pc = ff.resume, !.nested = "none", !.resume = "none"])

--------------------------------------------------------------------------
(* The state after construction.  A constructor whose ring needs more      *)
(* blocks than the allocator has throws bad_alloc (lines 79-80): no queue. *)

Init ==
    /\ MAX_BLOCK_SIZE \in BlockSizeParams
    /\ maxSize \in 1 .. MaxHint
    /\ q = ConcurrentQueue(maxSize, MAX_BLOCK_SIZE)
    /\ Len(q.blocks) <= MaxBlocks
    /\ p = IdleFrame
    /\ c = IdleFrame
    /\ display = Absent /\ file = Absent /\ bytes = Absent

ProducerDoes(r) == q' = r.q /\ p' = r.f /\ UNCHANGED <<MAX_BLOCK_SIZE, maxSize, c, otherVars>>
ConsumerDoes(r) == q' = r.q /\ c' = r.f /\ UNCHANGED <<MAX_BLOCK_SIZE, maxSize, p, otherVars>>

InEnqueue(ff) == ff.op \in {CanAlloc, CannotAlloc}

--------------------------------------------------------------------------
(* Producer thread *)

TryEnqueueCall == p.pc = "idle" /\ p.count < MaxEnq /\ ProducerDoes(try_enqueue(q, p))
EnqueueCall == p.pc = "idle" /\ p.count < MaxEnq /\ ProducerDoes(enqueue(q, p))
InnerEnqueueConstruct == InEnqueue(p) /\ p.pc = "construct" /\ ProducerDoes(inner_enqueue_construct(q, p))
InnerEnqueuePublish == InEnqueue(p) /\ p.pc = "publish" /\ ProducerDoes(inner_enqueue_publish(q, p))
InnerEnqueueCheckNext == InEnqueue(p) /\ p.pc = "checkNext" /\ ProducerDoes(inner_enqueue_checkNext(q, p))
InnerEnqueueReuseLoad == InEnqueue(p) /\ p.pc = "reuseLoad" /\ ProducerDoes(inner_enqueue_reuseLoad(q, p))
InnerEnqueueReuseConstruct == InEnqueue(p) /\ p.pc = "reuseConstruct" /\ ProducerDoes(inner_enqueue_reuseConstruct(q, p))
InnerEnqueueReusePublish == InEnqueue(p) /\ p.pc = "reusePublish" /\ ProducerDoes(inner_enqueue_reusePublish(q, p))
InnerEnqueueReuseAdvance == InEnqueue(p) /\ p.pc = "reuseAdvance" /\ ProducerDoes(inner_enqueue_reuseAdvance(q, p))
InnerEnqueueNewConstruct == InEnqueue(p) /\ p.pc = "newConstruct" /\ ProducerDoes(inner_enqueue_newConstruct(q, p))
InnerEnqueueLink == InEnqueue(p) /\ p.pc = "link" /\ ProducerDoes(inner_enqueue_link(q, p))
InnerEnqueueNewAdvance == InEnqueue(p) /\ p.pc = "newAdvance" /\ ProducerDoes(inner_enqueue_newAdvance(q, p))
InnerEnqueueAlloc ==
    InEnqueue(p) /\ p.pc = "alloc" /\ \E mallocOk \in BOOLEAN : ProducerDoes(inner_enqueue_alloc(q, p, mallocOk))
ProducerSizeApproxCall == p.pc = "idle" /\ ProducerDoes(size_approx_begin(q, p))
ProducerSizeApproxLoadFront == p.op = "size_approx" /\ p.pc = "loadFront" /\ ProducerDoes(size_approx_loadFront(q, p))
ProducerSizeApproxLoadTail == p.op = "size_approx" /\ p.pc = "loadTail" /\ ProducerDoes(size_approx_loadTail(q, p))
ProducerSizeApproxNext_ == p.op = "size_approx" /\ p.pc = "next" /\ ProducerDoes(size_approx_next(q, p))
ProducerReturns == p.pc = "done" /\ ProducerDoes(Pair(q, Resume(p)))

\* the steps of a running enqueue or try_enqueue, and its return
EnqueueSteps ==
    \/ InnerEnqueueConstruct
    \/ InnerEnqueuePublish
    \/ InnerEnqueueCheckNext
    \/ InnerEnqueueReuseLoad
    \/ InnerEnqueueReuseConstruct
    \/ InnerEnqueueReusePublish
    \/ InnerEnqueueReuseAdvance
    \/ InnerEnqueueAlloc
    \/ InnerEnqueueNewConstruct
    \/ InnerEnqueueLink
    \/ InnerEnqueueNewAdvance
    \/ ProducerReturns

\* the producer calling enqueue and try_enqueue
EnqueueNext ==
    \/ TryEnqueueCall
    \/ EnqueueCall
    \/ EnqueueSteps

\* the producer calling size_approx
ProducerSizeApproxNext ==
    \/ ProducerSizeApproxCall
    \/ ProducerSizeApproxLoadFront
    \/ ProducerSizeApproxLoadTail
    \/ ProducerSizeApproxNext_

--------------------------------------------------------------------------
(* Consumer thread *)

TryDequeueCall == c.pc = "idle" /\ ConsumerDoes(try_dequeue_begin(q, c))
TryDequeueNonEmpty == c.op = "try_dequeue" /\ c.pc = "nonEmpty" /\ ConsumerDoes(try_dequeue_nonEmpty(q, c))
TryDequeueStoreFront == c.op = "try_dequeue" /\ c.pc = "storeFront" /\ ConsumerDoes(try_dequeue_storeFront(q, c))
TryDequeueCheckTail == c.op = "try_dequeue" /\ c.pc = "checkTail" /\ ConsumerDoes(try_dequeue_checkTail(q, c))
TryDequeueRecheck == c.op = "try_dequeue" /\ c.pc = "recheck" /\ ConsumerDoes(try_dequeue_recheck(q, c))
TryDequeueLoadNext == c.op = "try_dequeue" /\ c.pc = "loadNext" /\ ConsumerDoes(try_dequeue_loadNext(q, c))
TryDequeueLoadNextIndices == c.op = "try_dequeue" /\ c.pc = "loadNextIndices" /\ ConsumerDoes(try_dequeue_loadNextIndices(q, c))
TryDequeueAdvance == c.op = "try_dequeue" /\ c.pc = "advance" /\ ConsumerDoes(try_dequeue_advance(q, c))
TryDequeueTakeNext == c.op = "try_dequeue" /\ c.pc = "takeNext" /\ ConsumerDoes(try_dequeue_takeNext(q, c))
TryDequeueStoreNextFront == c.op = "try_dequeue" /\ c.pc = "storeNextFront" /\ ConsumerDoes(try_dequeue_storeNextFront(q, c))
PeekCall == c.pc = "idle" /\ ConsumerDoes(peek_begin(q, c))
PeekCheckTail == c.op = "peek" /\ c.pc = "checkTail" /\ ConsumerDoes(peek_checkTail(q, c))
PeekRecheck == c.op = "peek" /\ c.pc = "recheck" /\ ConsumerDoes(peek_recheck(q, c))
PeekLoadNext == c.op = "peek" /\ c.pc = "loadNext" /\ ConsumerDoes(peek_loadNext(q, c))
PeekLoadNextIndices == c.op = "peek" /\ c.pc = "loadNextIndices" /\ ConsumerDoes(peek_loadNextIndices(q, c))
PopCall == c.pc = "idle" /\ ConsumerDoes(pop_begin(q, c))
PopNonEmpty == c.op = "pop" /\ c.pc = "nonEmpty" /\ ConsumerDoes(pop_nonEmpty(q, c))
PopStoreFront == c.op = "pop" /\ c.pc = "storeFront" /\ ConsumerDoes(pop_storeFront(q, c))
PopCheckTail == c.op = "pop" /\ c.pc = "checkTail" /\ ConsumerDoes(pop_checkTail(q, c))
PopRecheck == c.op = "pop" /\ c.pc = "recheck" /\ ConsumerDoes(pop_recheck(q, c))
PopLoadNext == c.op = "pop" /\ c.pc = "loadNext" /\ ConsumerDoes(pop_loadNext(q, c))
PopLoadNextIndices == c.op = "pop" /\ c.pc = "loadNextIndices" /\ ConsumerDoes(pop_loadNextIndices(q, c))
PopAdvance == c.op = "pop" /\ c.pc = "advance" /\ ConsumerDoes(pop_advance(q, c))
PopTakeNext == c.op = "pop" /\ c.pc = "takeNext" /\ ConsumerDoes(pop_takeNext(q, c))
PopStoreNextFront == c.op = "pop" /\ c.pc = "storeNextFront" /\ ConsumerDoes(pop_storeNextFront(q, c))
ConsumerSizeApproxCall == c.pc = "idle" /\ ConsumerDoes(size_approx_begin(q, c))
ConsumerSizeApproxLoadFront == c.op = "size_approx" /\ c.pc = "loadFront" /\ ConsumerDoes(size_approx_loadFront(q, c))
ConsumerSizeApproxLoadTail == c.op = "size_approx" /\ c.pc = "loadTail" /\ ConsumerDoes(size_approx_loadTail(q, c))
ConsumerSizeApproxNext_ == c.op = "size_approx" /\ c.pc = "next" /\ ConsumerDoes(size_approx_next(q, c))
ConsumerReturns == c.pc = "done" /\ ConsumerDoes(Pair(q, Resume(c)))

\* the consumer calling try_dequeue
TryDequeueNext ==
    \/ TryDequeueCall
    \/ TryDequeueNonEmpty
    \/ TryDequeueStoreFront
    \/ TryDequeueCheckTail
    \/ TryDequeueRecheck
    \/ TryDequeueLoadNext
    \/ TryDequeueLoadNextIndices
    \/ TryDequeueAdvance
    \/ TryDequeueTakeNext
    \/ TryDequeueStoreNextFront
    \/ ConsumerReturns

\* the consumer calling peek
PeekNext ==
    \/ PeekCall
    \/ PeekCheckTail
    \/ PeekRecheck
    \/ PeekLoadNext
    \/ PeekLoadNextIndices

\* the consumer calling pop
PopNext ==
    \/ PopCall
    \/ PopNonEmpty
    \/ PopStoreFront
    \/ PopCheckTail
    \/ PopRecheck
    \/ PopLoadNext
    \/ PopLoadNextIndices
    \/ PopAdvance
    \/ PopTakeNext
    \/ PopStoreNextFront

\* the consumer calling size_approx
ConsumerSizeApproxNext ==
    \/ ConsumerSizeApproxCall
    \/ ConsumerSizeApproxLoadFront
    \/ ConsumerSizeApproxLoadTail
    \/ ConsumerSizeApproxNext_

--------------------------------------------------------------------------
(* Specifications *)

\* One producer thread calling enqueue / try_enqueue and one consumer thread
\* calling try_dequeue, peek and pop, concurrently.
Next == EnqueueNext \/ TryDequeueNext \/ PeekNext \/ PopNext

Spec == Init /\ [][Next]_vars

\* The same, and either thread may call size_approx between its other calls.
SizeNext ==
    \/ EnqueueNext
    \/ ProducerSizeApproxNext
    \/ TryDequeueNext
    \/ PeekNext
    \/ PopNext
    \/ ConsumerSizeApproxNext

SizeSpec == Init /\ [][SizeNext]_vars

\* Single-threaded use: a call starts when no call is running, and runs to its
\* return before the next one starts.  Runs are longer than the concurrent ones.
BothIdle == p.pc = "idle" /\ c.pc = "idle"

SeqTryEnqueueCall == BothIdle /\ p.count < MaxSeqEnq /\ ProducerDoes(try_enqueue(q, p))
SeqEnqueueCall == BothIdle /\ p.count < MaxSeqEnq /\ ProducerDoes(enqueue(q, p))

SeqNext ==
    \/ SeqTryEnqueueCall
    \/ SeqEnqueueCall
    \/ EnqueueSteps
    \/ p.pc = "idle" /\ TryDequeueNext
    \/ p.pc = "idle" /\ PeekNext
    \/ p.pc = "idle" /\ PopNext
    \/ p.pc = "idle" /\ ConsumerSizeApproxNext

SeqSpec == Init /\ [][SeqNext]_vars

--------------------------------------------------------------------------
(* Destruction of the queue, by a thread that has it to itself *)

\* the queue has not been handed to its destructor
Alive == c.op # Destructor

DestructorCall == BothIdle /\ ConsumerDoes(dtor_begin(q, c))
DestructorLoadBlock == c.op = Destructor /\ c.pc = "loadBlock" /\ ConsumerDoes(dtor_loadBlock(q, c))
DestructorSweep == c.op = Destructor /\ c.pc = "sweep" /\ ConsumerDoes(dtor_sweep(q, c))
DestructorFree == c.op = Destructor /\ c.pc = "free" /\ ConsumerDoes(dtor_free(q, c))

DestructorNext ==
    \/ DestructorCall
    \/ DestructorLoadBlock
    \/ DestructorSweep
    \/ DestructorFree

\* The two threads use the queue concurrently; when both are between calls the
\* queue may be destroyed, and nothing uses it from then on.
DtorNext ==
    \/ Alive /\ EnqueueNext
    \/ Alive /\ TryDequeueNext
    \/ Alive /\ PopNext
    \/ DestructorNext

DtorSpec == Init /\ [][DtorNext]_vars

--------------------------------------------------------------------------
(* Element types whose constructor, assignment or destructor call back     *)
(* into the queue                                                          *)

NestedEnqueue ==
    /\ InEnqueue(p) /\ p.pc \in ConstructSteps
    /\ \E op \in EnqueueOps : ProducerDoes(nested_enqueue(q, p, op))
NestedEnqueueAssert ==
    /\ InEnqueue(p) /\ p.pc \in ConstructSteps /\ q.enqueuing
    /\ ProducerDoes(guard_assert(q, p))
NestedEnqueueUnwind == p.pc = "nested" /\ ProducerDoes(inner_enqueue_unwind(q, p))
NestedDequeue ==
    /\ c.op \in {"try_dequeue", "pop"} /\ c.pc \in TakeSteps
    /\ \E op \in DequeueOps : ConsumerDoes(nested_dequeue(q, c, op))
NestedDequeueAssert ==
    /\ c.op \in {"try_dequeue", "pop"} /\ c.pc \in TakeSteps /\ q.dequeuing
    /\ ConsumerDoes(guard_assert(q, c))
NestedDequeueUnwind ==
    c.pc = "nested" /\ \E fromDestructor \in BOOLEAN : ConsumerDoes(dequeue_unwind(q, c, fromDestructor))

NestedNext ==
    \/ NestedEnqueue
    \/ NestedEnqueueAssert
    \/ NestedEnqueueUnwind
    \/ NestedDequeue
    \/ NestedDequeueAssert
    \/ NestedDequeueUnwind

\* no thread has aborted the process
Up == p.pc # "abort" /\ c.pc # "abort"

ReentryNext ==
    \/ Up /\ EnqueueNext
    \/ Up /\ TryDequeueNext
    \/ Up /\ PopNext
    \/ Up /\ NestedNext

ReentrySpec == Init /\ [][ReentryNext]_vars

\* The same element types, with fewer enqueues, and with peek and size_approx
\* among the calls: every operation of the queue, and every way out of it.
ShortTryEnqueueCall == p.pc = "idle" /\ p.count < MaxShortEnq /\ ProducerDoes(try_enqueue(q, p))
ShortEnqueueCall == p.pc = "idle" /\ p.count < MaxShortEnq /\ ProducerDoes(enqueue(q, p))

GuardNext ==
    \/ Up /\ ShortTryEnqueueCall
    \/ Up /\ ShortEnqueueCall
    \/ Up /\ EnqueueSteps
    \/ Up /\ ProducerSizeApproxNext
    \/ Up /\ TryDequeueNext
    \/ Up /\ PeekNext
    \/ Up /\ PopNext
    \/ Up /\ ConsumerSizeApproxNext
    \/ Up /\ NestedNext

GuardSpec == Init /\ [][GuardNext]_vars

--------------------------------------------------------------------------
(* size_approx walking the ring while the other thread enqueues (growing   *)
(* the ring) or dequeues.  A thread inside size_approx is scheduled again  *)
(* and again; nothing is assumed about the other calls.                    *)

WalkNext ==
    \/ ShortTryEnqueueCall
    \/ ShortEnqueueCall
    \/ EnqueueSteps
    \/ ProducerSizeApproxNext
    \/ TryDequeueNext
    \/ PopNext
    \/ ConsumerSizeApproxNext

WalkSpec ==
    /\ Init /\ [][WalkNext]_vars
    /\ WF_vars(Running(p) /\ ProducerSizeApproxNext)
    /\ WF_vars(Running(c) /\ ConsumerSizeApproxNext)

--------------------------------------------------------------------------
(* The producer thread enqueueing and the consumer thread calling          *)
(* try_dequeue again and again, each scheduled again and again: a thread   *)
(* that can take a step eventually takes one.                              *)

LiveNext == EnqueueNext \/ TryDequeueNext

LiveSpec == Init /\ [][LiveNext]_vars /\ WF_vars(EnqueueNext) /\ WF_vars(TryDequeueNext)

--------------------------------------------------------------------------
(* ConcurrentQueue(maxSize), one operator per step.  The constructing thread *)
(* has the object to itself; its frame is the producer's.                    *)

Constructor == "ConcurrentQueue"

\* the object before its constructor has run
Unconstructed ==
    [ blocks           |-> <<>>,
      frontBlock       |-> 0,
      tailBlock        |-> 0,
      largestBlockSize |-> 0,
      enqueuing        |-> FALSE,
      dequeuing        |-> FALSE ]

\* lines 59-75: the first block size, the choice between one block and a ring
ctor_begin(qq, ff, max, MBS) ==
    LET lbs == firstBlockSize(max) IN
    IF lbs > MBS * 2
    THEN Pair([qq EXCEPT !.largestBlockSize = MBS],
              [Call(ff, Constructor) EXCEPT !.pc = "ctorLoop", !.i = 0,
                                            !.result = initialBlockCount(max, MBS)])
    ELSE Pair([qq EXCEPT !.largestBlockSize = lbs],
              [Call(ff, Constructor) EXCEPT !.pc = "ctorSingle"])

\* lines 76-90: one turn of the loop; the new block goes after the last one and
\* points back to the first.  ff.result is initialBlockCount.
ctor_loop(qq, ff, mallocOk) ==
    LET id == Len(qq.blocks) + 1
        new == [block(qq.largestBlockSize) EXCEPT !.next = 1]
    IN  IF ~mallocOk
        THEN Pair(qq, Return(ff, "throw"))
        ELSE Pair([qq EXCEPT !.blocks =
                        IF id = 1 THEN <<new>>
                        ELSE Append([qq.blocks EXCEPT ![id - 1].next = id], new)],
                  [ff EXCEPT !.i = ff.i + 1,
                             !.pc = IF ff.i + 1 # ff.result THEN "ctorLoop" ELSE "ctorEnd"])

\* lines 92-98: the single block, its own successor
ctor_single(qq, ff, mallocOk) ==
    IF ~mallocOk
    THEN Pair(qq, Return(ff, "throw"))
    ELSE Pair([qq EXCEPT !.blocks = <<[block(qq.largestBlockSize) EXCEPT !.next = 1]>>],
              [ff EXCEPT !.pc = "ctorEnd"])

\* lines 99-104: frontBlock and tailBlock are the first block
ctor_end(qq, ff) ==
    Pair([qq EXCEPT !.frontBlock = 1, !.tailBlock = 1], IdleFrame)

\* the hints and block size parameters the constructor is run on
CtorBlockSizes == {2, 4, 8}

CtorInit ==
    /\ MAX_BLOCK_SIZE \in CtorBlockSizes
    /\ maxSize \in 1 .. MaxCtorHint
    /\ q = Unconstructed
    /\ p = IdleFrame
    /\ c = IdleFrame
    /\ display = Absent /\ file = Absent /\ bytes = Absent

CtorCall ==
    /\ q = Unconstructed /\ p.pc = "idle"
    /\ ProducerDoes(ctor_begin(q, p, maxSize, MAX_BLOCK_SIZE))

CtorLoop ==
    /\ p.op = Constructor /\ p.pc = "ctorLoop"
    /\ \E mallocOk \in BOOLEAN : ProducerDoes(ctor_loop(q, p, mallocOk))

CtorSingle ==
    /\ p.op = Constructor /\ p.pc = "ctorSingle"
    /\ \E mallocOk \in BOOLEAN : ProducerDoes(ctor_single(q, p, mallocOk))

CtorEnd == p.op = Constructor /\ p.pc = "ctorEnd" /\ ProducerDoes(ctor_end(q, p))

CtorNext ==
    \/ CtorCall
    \/ CtorLoop
    \/ CtorSingle
    \/ CtorEnd

CtorSpec == CtorInit /\ [][CtorNext]_vars

\* the constructor has returned
Constructed == q.frontBlock # 0

--------------------------------------------------------------------------
(* flair::display::DisplayObject (src/src/flair/display/DisplayObject.cc): *)
(* the objects of a display list and their parent pointers.  Objects are   *)
(* 1 .. MaxObjects, 0 is the null pointer.  Every object of the model may  *)
(* be passed as a container.                                               *)

Objects == 1 .. MaxObjects

\* lines 14-17: every object is constructed with no parent; no call yet
DisplayObject ==
    [ _parent |-> [o \in Objects |-> 0],
      this    |-> 0,          \* the last call's object
      arg     |-> 0,          \* the last call's argument
      ret     |-> "none" ]    \* how the last call ended

\* lines 122-125: parent()
parent(d, o) == d._parent[o]

\* lines 247-250: the loop of setParent, with `turns' iterations still allowed.
\* It ends at null or at `this'; on a chain that closes into a cycle without
\* `this' it never ends.
RECURSIVE setParent_loop(_, _, _, _)
setParent_loop(d, this, ancestor, turns) ==
    IF ~(ancestor # 0 /\ ancestor # this) THEN [ends |-> TRUE, ancestor |-> ancestor]
    ELSE IF turns = 0 THEN [ends |-> FALSE, ancestor |-> ancestor]
    ELSE setParent_loop(d, this, parent(d, ancestor), turns - 1)

\* mutant: only the new parent itself is compared with `this'
setParent_ParentOnly(d, this, newParent) ==
    IF newParent = this
    THEN [d EXCEPT !.this = this, !.arg = newParent, !.ret = "invalid_argument"]
    ELSE [d EXCEPT !._parent[this] = newParent,
                   !.this = this, !.arg = newParent, !.ret = "void"]

\* lines 245-258: setParent(parent) called on `this'
setParent(d, this, newParent) ==
    LET loop == setParent_loop(d, this, newParent, MaxObjects)
    IN  IF ~loop.ends
        THEN [d EXCEPT !.this = this, !.arg = newParent, !.ret = "diverges"]
        ELSE IF loop.ancestor = this
        THEN [d EXCEPT !.this = this, !.arg = newParent, !.ret = "invalid_argument"]
        ELSE [d EXCEPT !._parent[this] = newParent,
                       !.this = this, !.arg = newParent, !.ret = "void"]

DisplayInit ==
    /\ display = DisplayObject
    /\ MAX_BLOCK_SIZE = 2 /\ maxSize = 1 /\ q = Unconstructed
    /\ p = IdleFrame /\ c = IdleFrame
    /\ file = Absent /\ bytes = Absent

\* any object is given any object, or null, as its parent
SetParentCall ==
    /\ \E this \in Objects, newParent \in Objects \cup {0} :
            display' = setParent(display, this, newParent)
    /\ UNCHANGED <<queueVars, file, bytes>>

DisplaySpec == DisplayInit /\ [][SetParentCall]_vars

--------------------------------------------------------------------------
(* flair::net::FileReference (src/src/flair/net/FileReference.cc): load()  *)
(* and the callbacks it hands to the file service.  The service is not     *)
(* part of the class: it answers each open and close request once, with or *)
(* without an error, and answers a read request with any number of         *)
(* incomplete chunks followed by one completion or one error.  Between two *)
(* answers, and from the handler of a dispatched event, load() and data()  *)
(* may be called.                                                          *)

FILE_EMPTY == "FILE_EMPTY"
FILE_LOADING == "FILE_LOADING"
FILE_LOADED == "FILE_LOADED"

\* lines 22-25: the constructor; no request, no event, no load yet
FileReference ==
    [ _state  |-> FILE_EMPTY,
      _data   |-> 0,            \* 0: nullptr, 1: the ByteArray
      pending |-> <<>>,         \* the requests the service has not answered to the end
      opens   |-> 0,            \* open requests made so far
      steps   |-> <<>>,         \* what the service answered since the last open request
      events  |-> <<>> ]        \* the events dispatched, in order

\* lines 37-42
data(f) == IF f._state # FILE_LOADED THEN 0 ELSE f._data

\* line 90, 100, 116, 121
dispatchEvent(f, type) == [f EXCEPT !.events = Append(f.events, type)]

\* the service's answer takes the request off its list
Answered(f, kind) == SelectSeq(f.pending, LAMBDA r : r # kind)

\* mutant: load() does not look at the state
load_NoLoadingCheck(f) ==
    [f EXCEPT !._state = FILE_LOADING, !._data = 1,
              !.pending = Append(f.pending, "open"),
              !.opens = f.opens + 1, !.steps = <<>>]

\* lines 70-87: load() up to the open request
load(f) ==
    IF f._state = FILE_LOADING THEN f
    ELSE [f EXCEPT !._state = FILE_LOADING, !._data = 1,
                   !.pending = Append(f.pending, "open"),
                   !.opens = f.opens + 1, !.steps = <<>>]

\* lines 87-95 and 124: the callback of open
load_open(f, error) ==
    LET f1 == [f EXCEPT !.pending = Answered(f, "open")]
    IN  IF error
        THEN dispatchEvent([f1 EXCEPT !._state = FILE_EMPTY,
                                      !.steps = Append(f.steps, "open error")], "ERROR")
        ELSE [f1 EXCEPT !.pending = Append(f1.pending, "read"),
                        !.steps = Append(f.steps, "open")]

\* lines 95-113 and 123: the callback of read; answer is "error", "chunk" or
\* "complete"
load_read(f, answer) ==
    CASE answer = "error" ->
            [f EXCEPT !.pending = Append(Answered(f, "read"), "close after error"),
                      !.steps = Append(f.steps, "read error")]
      [] answer = "chunk" ->
            [f EXCEPT !.steps = Append(f.steps, "chunk")]
      [] answer = "complete" ->
            [f EXCEPT !.pending = Append(Answered(f, "read"), "close"),
                      !.steps = Append(f.steps, "complete")]

\* lines 98-101: the callback of the close that follows a read error
load_closeAfterError(f) ==
    dispatchEvent([f EXCEPT !.pending = Answered(f, "close after error"),
                            !._state = FILE_EMPTY,
                            !.steps = Append(f.steps, "closed")], "ERROR")

\* lines 113-122: the callback of the close that follows the completed read
load_close(f, error) ==
    LET f1 == [f EXCEPT !.pending = Answered(f, "close")]
    IN  IF error
        THEN dispatchEvent([f1 EXCEPT !._state = FILE_EMPTY,
                                      !.steps = Append(f.steps, "close error")], "ERROR")
        ELSE dispatchEvent([f1 EXCEPT !._state = FILE_LOADED,
                                      !.steps = Append(f.steps, "close")], "COMPLETE")

\* the chunks the service has delivered for the read in progress
Chunks(f) == Len(SelectSeq(f.steps, LAMBDA s : s = "chunk"))
Requested(f, kind) == \E i \in DOMAIN f.pending : f.pending[i] = kind

FileInit ==
    /\ file = FileReference
    /\ MAX_BLOCK_SIZE = 2 /\ maxSize = 1 /\ q = Unconstructed
    /\ p = IdleFrame /\ c = IdleFrame
    /\ display = Absent /\ bytes = Absent

FileDoes(f) == file' = f /\ UNCHANGED <<queueVars, display, bytes>>

LoadCall == (file._state = FILE_LOADING \/ file.opens < MaxLoads) /\ FileDoes(load(file))
OpenCallback == Requested(file, "open") /\ \E error \in BOOLEAN : FileDoes(load_open(file, error))
ReadCallback ==
    /\ Requested(file, "read")
    /\ \E answer \in {"error", "chunk", "complete"} :
            /\ answer = "chunk" => Chunks(file) < MaxChunks
            /\ FileDoes(load_read(file, answer))
CloseAfterErrorCallback == Requested(file, "close after error") /\ FileDoes(load_closeAfterError(file))
CloseCallback == Requested(file, "close") /\ \E error \in BOOLEAN : FileDoes(load_close(file, error))

FileNext ==
    \/ LoadCall
    \/ OpenCallback
    \/ ReadCallback
    \/ CloseAfterErrorCallback
    \/ CloseCallback

FileSpec == FileInit /\ [][FileNext]_vars

--------------------------------------------------------------------------
(* flair::utils::ByteArray (src/src/flair/utils/ByteArray.cc): a growable  *)
(* byte buffer with a read/write position.  The buffer is a function from  *)
(* the indices 0 .. _byteArrayLength - 1 to bytes; BLOCK_SIZE, of the      *)
(* class's header, is scaled down.  The memory new[] returns is not        *)
(* initialised: its bytes are any bytes.                                   *)

ByteValues == {0, 1}
SizeofInt8 == 1
SizeofInt16 == 2
SizeofInt32 == 4

\* the byte sequences of a given length
ByteSeqs(n) == [1 .. n -> ByteValues]

\* lines 23-29: the constructor, on the memory new[] handed out
ByteArray(memory) ==
    [ _position        |-> 0,
      _length          |-> 0,
      _byteArrayLength |-> BLOCK_SIZE,
      _byteArray       |-> memory ]

\* lines 51-54
length(b) == b._length

\* lines 56-81: length(value)
length_set(b, value) ==
    IF value = b._length THEN b
    ELSE IF value < b._byteArrayLength THEN [b EXCEPT !._length = value]
    ELSE LET newLength == ((value \div BLOCK_SIZE) + 1) * BLOCK_SIZE
         IN  [b EXCEPT !._byteArray = [i \in 0 .. newLength - 1 |->
                                          IF i < b._length THEN b._byteArray[i] ELSE 0],
                       !._byteArrayLength = newLength,
                       !._length = value]

\* lines 88-91: position(value)
position_set(b, value) == [b EXCEPT !._position = value]

\* lines 241-246, 260-265, 279-284: writeByte, writeShort, writeInt; value is
\* the object representation of the argument, sizeof(T) bytes
write(b, value) ==
    LET size == Len(value)
        b1   == length_set(b, b._position + size)
    IN  [b1 EXCEPT !._byteArray = [i \in DOMAIN b1._byteArray |->
                                      IF i \in b._position .. b._position + size - 1
                                      THEN value[i - b._position + 1]
                                      ELSE b1._byteArray[i]],
                   !._position = b._position + size]

\* lines 401-406: writeBytes(bytes, offset, len); src[k] is bytes[k - 1]
writeBytes(b, src, offset, len) ==
    LET b1 == length_set(b, b._position + len)
    IN  [b1 EXCEPT !._byteArray = [i \in DOMAIN b1._byteArray |->
                                      IF i < len THEN src[offset + i + 1]
                                      ELSE b1._byteArray[i]],
                   !._position = b._position + len]

\* lines 393-399: readBytes(bytes, offset, len); dst is what bytes[0 .. len) holds
\* afterwards
readBytes(b, offset, len) ==
    IF b._position + len > b._length
    THEN [b |-> b, dst |-> <<>>, ret |-> "EOF reached"]
    ELSE [b   |-> [b EXCEPT !._position = b._position + len],
          dst |-> [k \in 1 .. len |-> b._byteArray[b._position + k - 1]],
          ret |-> "void"]

BytesInit ==
    /\ \E memory \in [0 .. BLOCK_SIZE - 1 -> ByteValues] : bytes = ByteArray(memory)
    /\ MAX_BLOCK_SIZE = 2 /\ maxSize = 1 /\ q = Unconstructed
    /\ p = IdleFrame /\ c = IdleFrame
    /\ display = Absent /\ file = Absent

BytesDoes(b) == bytes' = b /\ UNCHANGED <<queueVars, display, file>>

\* the calls keep the array within MaxLength bytes
Fits(size) == bytes._position + size <= MaxLength

PositionCall == \E value \in 0 .. MaxLength : BytesDoes(position_set(bytes, value))
WriteByteCall == Fits(SizeofInt8) /\ \E value \in ByteSeqs(SizeofInt8) : BytesDoes(write(bytes, value))
WriteShortCall == Fits(SizeofInt16) /\ \E value \in ByteSeqs(SizeofInt16) : BytesDoes(write(bytes, value))
WriteIntCall == Fits(SizeofInt32) /\ \E value \in ByteSeqs(SizeofInt32) : BytesDoes(write(bytes, value))
WriteBytesCall ==
    \E len \in 0 .. MaxBytes, offset \in 0 .. 1 :
        /\ Fits(len)
        /\ \E src \in ByteSeqs(offset + len) : BytesDoes(writeBytes(bytes, src, offset, len))
ReadBytesCall == \E len \in 0 .. MaxBytes : BytesDoes(readBytes(bytes, 0, len).b)

BytesNext ==
    \/ PositionCall
    \/ WriteByteCall
    \/ WriteShortCall
    \/ WriteIntCall
    \/ WriteBytesCall
    \/ ReadBytesCall

BytesSpec == BytesInit /\ [][BytesNext]_vars

--------------------------------------------------------------------------
(* Views of the queue used by the properties *)

Range(f) == {f[x] : x \in DOMAIN f}
Min(S) == CHOOSE x \in S : \A y \in S : x <= y
BlockIds(qq) == 1 .. Len(qq.blocks)
Fronts(qq) == [b \in BlockIds(qq) |-> qq.blocks[b].front]
Tails(qq) == [b \in BlockIds(qq) |-> qq.blocks[b].tail]
NextLinks(qq) == [b \in BlockIds(qq) |-> qq.blocks[b].next]
Contents(qq) == [b \in BlockIds(qq) |-> qq.blocks[b].data]
InitialBlocks == Len(ConcurrentQueue(maxSize, MAX_BLOCK_SIZE).blocks)
NoGrowth == Len(q.blocks) = InitialBlocks
RemovedInOrder == \A i \in DOMAIN c.removed : c.removed[i] = i

--------------------------------------------------------------------------
(* C1: under every interleaving of the producer (enqueueing 1, 2, 3, ...)  *)
(* and the consumer, the elements the consumer removes are 1, 2, 3, ... in *)
(* that order, none lost, duplicated or reordered, and each successful     *)
(* try_dequeue returns the element it removed.                             *)
C1_RaceFifo ==
    /\ RemovedInOrder
    /\ Len(c.removed) <= MaxEnq
    /\ (c.op = "try_dequeue" /\ c.pc = "done" /\ c.ret = "true")
           => c.out = Len(c.removed)

\* a try_dequeue found the front block refilled on its second look, after the
\* producer had moved tailBlock on, and every element has been received
C1_Witness ==
    /\ c.op = "try_dequeue" /\ c.pc = "done" /\ c.ret = "true" /\ c.path = "recheck"
    /\ Len(c.removed) >= 1
    /\ q.tailBlock # q.frontBlock

(* C2: in single-threaded use the elements removed are the elements        *)
(* enqueued, in enqueue order: between calls the removed elements are      *)
(* 1..n and the resident elements are exactly n+1..count, each once.       *)
C2_SeqFifo ==
    /\ RemovedInOrder
    /\ (c.op = "try_dequeue" /\ c.pc = "done" /\ c.ret = "true")
           => c.out = Len(c.removed)
    /\ BothIdle =>
           /\ ResidentValues(q) = (Len(c.removed) + 1) .. p.count
           /\ Resident(q) = p.count - Len(c.removed)

\* the last element of a full run came out of a block reached by advancing
\* frontBlock, after the ring grew
C2_Witness ==
    /\ c.op = "try_dequeue" /\ c.pc = "done" /\ c.ret = "true" /\ c.path = "next"
    /\ Len(c.removed) = MaxSeqEnq
    /\ ~NoGrowth

(* C3: with the producer between calls, try_dequeue returns true and       *)
(* removes the oldest element whenever an element is resident, and returns *)
(* false only when none is; a false return leaves the front indices,       *)
(* frontBlock and the contents as they were.                               *)
C3_TryDequeueEmptiness ==
    BothIdle =>
        LET r == TryDequeueAlone(q, c) IN
        /\ r.f.pc = "done"
        /\ r.f.ret \in {"true", "false"}
        /\ Resident(q) > 0 =>
               /\ r.f.ret = "true"
               /\ r.f.out = Min(ResidentValues(q))
               /\ ResidentValues(r.q) = ResidentValues(q) \ {Min(ResidentValues(q))}
        /\ r.f.ret = "false" =>
               /\ Resident(q) = 0
               /\ Fronts(r.q) = Fronts(q)
               /\ r.q.frontBlock = q.frontBlock
               /\ Contents(r.q) = Contents(q)

\* try_dequeue returned false on a ring of several blocks that had held elements
C3_Witness ==
    /\ c.op = "try_dequeue" /\ c.pc = "done" /\ c.ret = "false"
    /\ p.pc = "idle"
    /\ Len(c.removed) >= 2
    /\ Len(q.blocks) >= 2

(* C4: no step of try_enqueue allocates: the blocks, their next links and  *)
(* largestBlockSize stay as they are; and the steps of a call that returns *)
(* false leave every tail index, tailBlock and the contents as they are.   *)
C4_TryEnqueueFrame ==
    [][ (p' # p /\ p'.op = CannotAlloc) =>
          /\ Len(q'.blocks) = Len(q.blocks)
          /\ NextLinks(q') = NextLinks(q)
          /\ q'.largestBlockSize = q.largestBlockSize
          /\ (p'.pc = "checkNext" \/ p'.ret = "false") =>
                 /\ Tails(q') = Tails(q)
                 /\ q'.tailBlock = q.tailBlock
                 /\ Contents(q') = Contents(q) ]_vars

\* try_enqueue returned false on a full ring
C4_Witness ==
    /\ p.op = CannotAlloc /\ p.pc = "done" /\ p.ret = "false"
    /\ Resident(q) > 0

(* C5: enqueue returns false only if make_block returned nullptr in that   *)
(* call; otherwise it returns true and its element is resident (or the     *)
(* consumer has removed it already).                                       *)
C5_EnqueueFailsOnlyOnMalloc ==
    p.op = CanAlloc =>
        /\ p.pc # "abort"
        /\ p.pc = "done" =>
               /\ p.ret \in {"true", "false"}
               /\ p.ret = "false" => p.mallocFailed
               /\ p.ret = "true" => p.count \in ResidentValues(q) \cup Range(c.removed)

\* enqueue returned true after growing the ring, while a consumer call was running
C5_Witness ==
    /\ p.op = CanAlloc /\ p.pc = "done" /\ p.ret = "true"
    /\ q.tailBlock = Len(q.blocks) /\ ~NoGrowth
    /\ Running(c)

RECURSIVE FillAlone(_, _)
FillAlone(r, n) ==
    IF n = 0 THEN r
    ELSE LET r1 == TryEnqueueAlone(r.q, Resume(r.f))
         IN  IF r1.f.ret = "true" THEN FillAlone(r1, n - 1) ELSE r1

(* C6: on a freshly constructed queue with hint maxSize, try_enqueue does  *)
(* not fail before maxSize elements are in: a try_enqueue that returns     *)
(* false with nothing removed yet and no block added since construction    *)
(* comes after at least maxSize successful ones; and maxSize calls of      *)
(* try_enqueue run on the constructed queue all return true and leave the  *)
(* number of blocks as constructed.                                        *)
C6_CapacityFloorFresh ==
    /\ (p.op = CannotAlloc /\ p.pc = "done" /\ p.ret = "false"
           /\ NoGrowth /\ Len(c.removed) = 0 /\ Resident(q) = p.count)
          => p.count >= maxSize
    /\ LET r == FillAlone(Pair(ConcurrentQueue(maxSize, MAX_BLOCK_SIZE), IdleFrame), maxSize)
       IN  /\ r.f.count = maxSize
           /\ Resident(r.q) = maxSize
           /\ Len(r.q.blocks) = InitialBlocks

\* the maxSize-th try_enqueue on a fresh ring of several blocks returned true
C6_Witness ==
    /\ p.op = CannotAlloc /\ p.pc = "done" /\ p.ret = "true"
    /\ p.count = maxSize /\ Resident(q) = maxSize
    /\ Len(c.removed) = 0 /\ NoGrowth /\ InitialBlocks >= 2

(* C7: between calls, on a queue that has not grown since construction     *)
(* with hint maxSize, fewer than maxSize resident elements imply that      *)
(* try_enqueue returns true.                                               *)
C7_CapacityFloorAnywhere ==
    (BothIdle /\ NoGrowth /\ Resident(q) < maxSize)
        => TryEnqueueAlone(q, p).f.ret = "true"

\* try_enqueue brought a ring of several blocks back to maxSize elements after
\* the producer had wrapped around the ring behind the consumer
C7_Witness ==
    /\ p.op = CannotAlloc /\ p.pc = "done" /\ p.ret = "true"
    /\ NoGrowth /\ InitialBlocks >= 2
    /\ Resident(q) = maxSize
    /\ q.tailBlock < q.frontBlock

(* C8: peek points at the element the next try_dequeue would return and    *)
(* returns null exactly when try_dequeue would return false (with the      *)
(* producer between calls: exactly when no element is resident, and the    *)
(* element is the oldest one); peek leaves the front indices, frontBlock   *)
(* and the contents as they were.                                          *)
C8_PeekIsNextDequeue ==
    c.pc = "idle" =>
        LET pk == PeekAlone(q, c)
            td == TryDequeueAlone(q, c)
        IN  /\ pk.f.pc = "done"
            /\ pk.f.ret \in {"pointer", "null"}
            /\ (pk.f.ret = "pointer") <=> (td.f.ret = "true")
            /\ pk.f.ret = "pointer" =>
                   /\ pk.f.out = td.f.out
                   /\ pk.f.out # 0
                   /\ q.blocks[pk.f.outBlock].data[pk.f.outIndex] = pk.f.out
            /\ p.pc = "idle" =>
                   /\ (pk.f.ret = "null") <=> (Resident(q) = 0)
                   /\ Resident(q) > 0 => pk.f.out = Min(ResidentValues(q))
            /\ Fronts(pk.q) = Fronts(q)
            /\ pk.q.frontBlock = q.frontBlock
            /\ Contents(pk.q) = Contents(q)

\* peek returned a pointer into the block after a drained front block
C8_Witness ==
    /\ c.op = "peek" /\ c.pc = "done" /\ c.ret = "pointer" /\ c.path = "next"
    /\ c.outBlock # q.frontBlock
    /\ c.out # 0

(* C9: from any state in which the consumer is between calls, pop and      *)
(* try_dequeue return the same boolean and leave the same frontBlock,      *)
(* front indices and contents, and remove the same element.                *)
C9_PopIsDequeueDiscard ==
    c.pc = "idle" =>
        LET pp == PopAlone(q, c)
            td == TryDequeueAlone(q, c)
        IN  /\ pp.f.pc = td.f.pc
            /\ pp.f.ret = td.f.ret
            /\ pp.q.frontBlock = td.q.frontBlock
            /\ Fronts(pp.q) = Fronts(td.q)
            /\ Contents(pp.q) = Contents(td.q)
            /\ pp.f.removed = td.f.removed

\* pop removed an element from the block after a drained front block
C9_Witness ==
    /\ c.op = "pop" /\ c.pc = "done" /\ c.ret = "true" /\ c.path = "next"
    /\ Len(c.removed) >= 2

RECURSIVE RingFrom(_, _, _)
RingFrom(qq, b, seen) ==
    IF b \in seen \/ b = 0 THEN seen ELSE RingFrom(qq, qq.blocks[b].next, seen \cup {b})

\* the blocks linked into the ring
Ring(qq) == RingFrom(qq, qq.frontBlock, {})

RECURSIVE SumUsable(_, _)
SumUsable(qq, S) ==
    IF S = {} THEN 0
    ELSE LET b == CHOOSE x \in S : TRUE
         IN  Capacity(qq.blocks[b]) - 1 + SumUsable(qq, S \ {b})

SizeBound(qq) == SumUsable(qq, Ring(qq))

(* C10: every value size_approx returns, also when the call ran while the  *)
(* other thread enqueued (growing the ring) or dequeued, is at least 0 and *)
(* at most the sum of the capacities of the blocks minus their number.     *)
C10_SizeApproxBounds ==
    \A f \in {p, c} :
        (f.op = "size_approx" /\ f.pc = "done") =>
            /\ f.ret = "size"
            /\ 0 <= f.result
            /\ f.result <= SizeBound(q)

\* the consumer's size_approx returned the bound itself on a ring that grew,
\* while an enqueue was running
C10_Witness ==
    /\ c.op = "size_approx" /\ c.pc = "done"
    /\ c.result = SizeBound(q)
    /\ ~NoGrowth
    /\ Running(p) /\ InEnqueue(p)

(* C11: with no enqueue or dequeue in progress, size_approx returns the    *)
(* number of resident elements, which is the number of successful enqueues *)
(* minus the number of elements removed by try_dequeue and pop, also after *)
(* blocks were reused and the ring grew.                                   *)
C11_SizeApproxExact ==
    /\ (c.op = "size_approx" /\ c.pc = "done") =>
           /\ c.result = Resident(q)
           /\ c.result = p.count - Len(c.removed)
    /\ BothIdle => SizeApproxAlone(q, p).f.result = Resident(q)

\* size_approx returned 2 or more on a grown ring in which a block's indices
\* have wrapped and the front block is not the first block
C11_Witness ==
    /\ c.op = "size_approx" /\ c.pc = "done" /\ c.result >= 2
    /\ ~NoGrowth
    /\ q.frontBlock # 1
    /\ \E b \in BlockIds(q) : q.blocks[b].tail < q.blocks[b].front

NoDuplicates(s) == Cardinality(Range(s)) = Len(s)

(* C12: every element a successful enqueue constructed is destructed       *)
(* exactly once, by the try_dequeue or pop that removes it or by the       *)
(* destructor: no element is destructed twice, the destructor's sweep      *)
(* destructs only live elements, and when the destructor is done every     *)
(* element 1..count has been destructed, no slot holds a live element and  *)
(* every block has been freed once.                                        *)
C12_DestructOnce ==
    /\ NoDuplicates(c.removed \o c.destroyed)
    /\ 0 \notin Range(c.removed \o c.destroyed)
    /\ Range(c.removed \o c.destroyed) \cap ResidentValues(q) = {}
    /\ Resident(q) = Cardinality(ResidentValues(q))
    /\ c.pc = "destroyed" =>
           /\ Range(c.removed \o c.destroyed) = 1 .. p.count
           /\ Resident(q) = 0
           /\ NoDuplicates(c.freed)
           /\ Range(c.freed) = BlockIds(q)

\* the destructor is done on a grown ring, after some but not all elements were
\* dequeued, and its sweep destructed elements of more than one block
C12_Witness ==
    /\ c.pc = "destroyed"
    /\ Len(c.removed) >= 1 /\ Len(c.destroyed) >= 3
    /\ ~NoGrowth
    /\ Len(c.freed) >= 3

\* the hint that spans two blocks of MAX_BLOCK_SIZE, each with its spare slot
TwoBlockHint == 2 * (MAX_BLOCK_SIZE - 1)

\* a try_enqueue has returned on a queue built for TwoBlockHint that has not
\* grown and from which nothing was removed
AtGrowthBoundary ==
    /\ maxSize = TwoBlockHint
    /\ NoGrowth /\ Len(c.removed) = 0
    /\ p.op = CannotAlloc /\ p.pc = "done"

RECURSIVE DrainAlone(_, _)
DrainAlone(r, n) ==
    IF n = 0 THEN r
    ELSE LET r1 == TryDequeueAlone(r.q, Resume(r.f))
         IN  IF r1.f.ret = "true" THEN DrainAlone(r1, n - 1) ELSE r1

\* an enqueue has returned true as the call after the TwoBlockHint + 1
\* successful ones that fill the queue built for TwoBlockHint, nothing removed
GrewAtBoundary ==
    /\ maxSize = TwoBlockHint
    /\ Len(c.removed) = 0 /\ c.pc = "idle"
    /\ p.op = CanAlloc /\ p.pc = "done" /\ p.ret = "true"
    /\ p.count = TwoBlockHint + 2

SameQueue(a, b) ==
    /\ Len(a.blocks) = Len(b.blocks)
    /\ NextLinks(a) = NextLinks(b)
    /\ a.frontBlock = b.frontBlock /\ a.tailBlock = b.tailBlock
    /\ Fronts(a) = Fronts(b) /\ Tails(a) = Tails(b)
    /\ a.largestBlockSize = b.largestBlockSize
    /\ Contents(a) = Contents(b)

\* the calls that follow on queue a do what they do on queue b
BehavesAs(a, b) ==
    /\ LET x == TryEnqueueAlone(a, Resume(p))
           y == TryEnqueueAlone(b, Resume(p))
       IN  x.f.ret = y.f.ret /\ SameQueue(x.q, y.q)
    /\ LET x == EnqueueAlone(a, Resume(p), TRUE)
           y == EnqueueAlone(b, Resume(p), TRUE)
       IN  x.f.ret = y.f.ret /\ SameQueue(x.q, y.q)
    /\ ~Running(c) =>
           LET x == TryDequeueAlone(a, Resume(c))
               y == TryDequeueAlone(b, Resume(c))
           IN  x.f.ret = y.f.ret /\ x.f.out = y.f.out /\ SameQueue(x.q, y.q)

(* C15: an enqueue whose block allocation fails returns false and leaves   *)
(* the blocks and their next links, tailBlock, every front and tail index, *)
(* largestBlockSize and the contents as they were, and the enqueue,        *)
(* try_enqueue and try_dequeue calls that follow behave as they would have *)
(* without the failed call: as a whole call run from any state in which    *)
(* the producer is between calls, and as the failing step when the         *)
(* consumer runs concurrently.                                             *)
C15_AllocFailureIntact ==
    /\ [](p.pc = "idle" =>
             LET r == EnqueueAlone(q, p, FALSE)
             IN  r.f.mallocFailed =>
                     /\ r.f.ret = "false"
                     /\ r.f.count = p.count
                     /\ SameQueue(r.q, q)
                     /\ BehavesAs(r.q, q))
    /\ []((p.op = CanAlloc /\ p.pc = "done" /\ p.mallocFailed) => p.ret = "false")
    /\ [][(p.pc = "alloc" /\ p'.mallocFailed) =>
              /\ p'.pc = "done" /\ p'.ret = "false" /\ p'.count = p.count
              /\ SameQueue(q', q)
              /\ ~q'.enqueuing]_vars

\* an enqueue returned false on a failed allocation, with elements resident on
\* a ring that had grown before, while a consumer call was running
C15_Witness ==
    /\ p.op = CanAlloc /\ p.pc = "done" /\ p.ret = "false" /\ p.mallocFailed
    /\ Resident(q) >= 2
    /\ ~NoGrowth
    /\ Running(c)

(* C16: a call of enqueue or try_enqueue made while an enqueue is in       *)
(* progress on the same queue (from the element's constructor) is rejected *)
(* by the guard, by its exception or by its assertion, before it reads or  *)
(* writes a block or an index: the nested call leaves the queue as it was. *)
(* Likewise a try_dequeue, peek or pop made from inside try_dequeue or pop.*)
C16_ReentrancyRejected ==
    /\ [](p.pc = "nested" => p.nested = "throw")
    /\ [](c.pc = "nested" => c.nested = "throw")
    /\ [][(p.pc \in ConstructSteps /\ p'.pc \in {"nested", "abort"}) => q' = q]_vars
    /\ [][(c.pc \in TakeSteps /\ c'.pc \in {"nested", "abort"}) => q' = q]_vars

\* an enqueue nested in an enqueue that is about to allocate into a new block,
\* and a dequeue-side call nested in a pop, have both been rejected
C16_Witness ==
    /\ p.pc = "nested" /\ p.nested = "throw" /\ p.resume = "newConstruct"
    /\ c.pc = "nested" /\ c.nested = "throw" /\ c.op = "pop"
    /\ Resident(q) >= 1

(* C17: in every step of enqueue, try_enqueue, try_dequeue, peek and pop   *)
(* largestBlockSize does not decrease, no block is freed or changes its    *)
(* capacity, a newly allocated block is at least as large as every block   *)
(* allocated before it, and every block in the ring stays in the ring.     *)
C17_MonotoneGrowth ==
    [][ /\ q'.largestBlockSize >= q.largestBlockSize
        /\ Len(q'.blocks) >= Len(q.blocks)
        /\ \A b \in BlockIds(q) : Capacity(q'.blocks[b]) = Capacity(q.blocks[b])
        /\ \A b \in BlockIds(q') \ BlockIds(q) :
               /\ Capacity(q'.blocks[b]) = q'.largestBlockSize
               /\ \A a \in BlockIds(q) : Capacity(q'.blocks[b]) >= Capacity(q.blocks[a])
        /\ Ring(q) \subseteq Ring(q') ]_vars

\* the ring has grown twice, the second block larger than the first, and all
\* three blocks are in the ring
C17_Witness ==
    /\ Len(q.blocks) = 3 /\ InitialBlocks = 1
    /\ Capacity(q.blocks[2]) > Capacity(q.blocks[1])
    /\ Capacity(q.blocks[3]) >= Capacity(q.blocks[2])
    /\ Ring(q) = {1, 2, 3}
    /\ q.largestBlockSize = Capacity(q.blocks[3])

\* the most steps a call at this position still takes before it returns
StepsLeft(ff) ==
    CASE ff.pc \in {"idle", "done", "abort"} -> 0
      [] ff.pc \in {"publish", "reuseAdvance", "newAdvance",
                    "storeFront", "storeNextFront"} -> 1
      [] ff.pc \in {"construct", "reusePublish", "link", "nonEmpty", "takeNext"} -> 2
      [] ff.pc \in {"reuseConstruct", "newConstruct", "advance"} -> 3
      [] ff.pc \in {"reuseLoad", "alloc", "loadNextIndices"} -> 4
      [] ff.pc \in {"checkNext", "loadNext"} -> 5
      [] ff.pc = "recheck" -> 6
      [] ff.pc = "checkTail" -> 7

\* the most steps of its own any call takes, its first step included
MaxOwnSteps == 1 + StepsLeft([pc |-> "checkTail"])

(* C18: try_enqueue, enqueue, try_dequeue, peek and pop are non-blocking:  *)
(* a call's first step leaves it fewer than MaxOwnSteps steps from its     *)
(* return, every later step of the call brings it closer to its return (no *)
(* retry loop), and a running call can take its next step in every state,  *)
(* wherever the other thread is and whether or not it moves (no wait).     *)
C18_NonBlocking ==
    /\ [][ /\ (p' # p /\ Running(p)) => StepsLeft(p') < StepsLeft(p)
           /\ (c' # c /\ Running(c)) => StepsLeft(c') < StepsLeft(c)
           /\ (p' # p /\ p.pc = "idle") => StepsLeft(p') < MaxOwnSteps
           /\ (c' # c /\ c.pc = "idle") => StepsLeft(c') < MaxOwnSteps ]_vars
    /\ [](Running(p) => ENABLED EnqueueSteps)
    /\ [](Running(c) => ENABLED (TryDequeueNext \/ PeekNext \/ PopNext))

\* a try_dequeue went the longest way, into the next block, and returned while
\* the producer stood in the middle of an enqueue
C18_Witness ==
    /\ c.op = "try_dequeue" /\ c.pc = "done" /\ c.ret = "true" /\ c.path = "next"
    /\ Running(p) /\ p.pc = "construct"

(* C19: with both threads scheduled fairly and the consumer calling        *)
(* try_dequeue again and again, every element the producer has enqueued is *)
(* eventually received: once n enqueues have succeeded, the consumer       *)
(* eventually has n elements.  And once the producer has stopped, a        *)
(* try_dequeue returns false only if every element was received.          *)
C19_EventualDelivery ==
    /\ \A n \in 1 .. MaxEnq : (p.count >= n) ~> (Len(c.removed) >= n)
    /\ []((p.pc = "idle" /\ c.pc = "idle") =>
             (TryDequeueAlone(q, c).f.ret = "false" => Len(c.removed) = p.count))

\* the consumer has received every element of a run on a ring that grew
C19_Witness ==
    /\ c.op = "try_dequeue" /\ c.pc = "done" /\ c.ret = "true"
    /\ Len(c.removed) = MaxEnq /\ p.count = MaxEnq
    /\ ~NoGrowth

LocalFronts(qq) == [b \in BlockIds(qq) |-> qq.blocks[b].localFront]

\* the fields only consumer-side operations write, in the blocks of the ring
ConsumerOwned(qq, ring) ==
    [ frontBlock |-> qq.frontBlock,
      front      |-> [b \in ring |-> qq.blocks[b].front],
      localTail  |-> [b \in ring |-> qq.blocks[b].localTail] ]

\* the fields only producer-side operations write
ProducerOwned(qq) ==
    [ tailBlock        |-> qq.tailBlock,
      largestBlockSize |-> qq.largestBlockSize,
      blocks           |-> Len(qq.blocks),
      tail             |-> Tails(qq),
      localFront       |-> LocalFronts(qq),
      next             |-> NextLinks(qq) ]

(* C20: a step of enqueue or try_enqueue leaves frontBlock and, in every   *)
(* block linked into the ring, front and localTail as they are; a step of  *)
(* try_dequeue, peek or pop leaves tailBlock, largestBlockSize, the set of *)
(* blocks and every block's tail, localFront and next as they are; a step  *)
(* of size_approx, on either thread, leaves the whole queue as it is.      *)
C20_FieldOwnership ==
    [][ /\ c' = c => ConsumerOwned(q', Ring(q)) = ConsumerOwned(q, Ring(q))
        /\ p' = p => ProducerOwned(q') = ProducerOwned(q)
        /\ (p' # p /\ p'.op = "size_approx") => q' = q
        /\ (c' # c /\ c'.op = "size_approx") => q' = q ]_vars

\* the producer has set the fields of a new block, its localTail among them,
\* and has not linked it yet, while the consumer is in a pop on the next block
C20_Witness ==
    /\ InEnqueue(p) /\ p.pc = "link"
    /\ q.blocks[p.newBlock].localTail = 1
    /\ p.newBlock \notin Ring(q)
    /\ c.op = "pop" /\ c.pc = "advance"

--------------------------------------------------------------------------
(* C21 *)

\* C21: in enqueue, try_enqueue, try_dequeue and pop, every store to a front or
\* tail index that exposes a just-constructed or just-destructed slot to the
\* other thread comes after a release fence that follows the slot access, and
\* every slot access gated by a load of the other thread's index comes after an
\* acquire fence that follows the load.
C21_FencesAroundIndices ==
    [][ /\ (c' # c /\ c.op \in {"try_dequeue", "pop"} /\ Fronts(q') # Fronts(q))
            => c'.storeFence = "release"
        /\ (p' # p /\ InEnqueue(p) /\ q'.blocks[q.tailBlock].tail # q.blocks[q.tailBlock].tail)
            => p'.storeFence = "release"
        /\ (c' # c /\ c.op \in {"try_dequeue", "pop"} /\ c.pc = "nonEmpty")
            => c.loadFence = "acquire"
        /\ (p' # p /\ InEnqueue(p) /\ p.pc = "construct")
            => p.loadFence = "acquire" ]_vars

--------------------------------------------------------------------------
(* C22 *)

\* C22: the assertion nextBlockFront != nextBlockTail of try_dequeue, peek and
\* pop never fails, and every block strictly after frontBlock up to and
\* including tailBlock holds at least one element.
C22_NextBlockNotEmpty ==
    /\ ~c.assertFailed /\ c.pc # "abort"
    /\ (c.op \in {"try_dequeue", "peek", "pop"} /\ c.pc = "loadNextIndices")
           => q.blocks[c.nextBlock].front # q.blocks[c.nextBlock].tail
    /\ \A b \in AfterFront(q) :
           /\ q.blocks[b].front # q.blocks[b].tail
           /\ LiveSlots(q.blocks[b]) # {}

\* the consumer has passed the assertion while two blocks lie after the front block
C22_Witness ==
    /\ c.op = "try_dequeue" /\ c.pc = "advance"
    /\ Cardinality(AfterFront(q)) >= 2

--------------------------------------------------------------------------
(* C23 *)

\* the producer is on the path that reuses the block after the tail block
InReuse ==
    InEnqueue(p) /\ p.pc \in {"reuseLoad", "reuseConstruct", "reusePublish", "reuseAdvance"}

\* the block after the tail block
NextOfTail == q.blocks[q.tailBlock].next

(* C23: when the producer has found its tail block full and tailBlock->next *)
(* is not the front block, that next block is empty, and no consumer step   *)
(* reads its slots or changes it before tailBlock advances to it: the       *)
(* assertion nextBlockFront == nextBlockTail of the enqueue path never      *)
(* fails.                                                                   *)
C23_NextBlockFree ==
    /\ [](/\ ~p.assertFailed /\ p.pc # "abort"
          /\ (InEnqueue(p) /\ p.pc = "reuseLoad") =>
                 /\ q.blocks[NextOfTail].front = q.blocks[NextOfTail].tail
                 /\ LiveSlots(q.blocks[NextOfTail]) = {}
          /\ InReuse =>
                 /\ q.frontBlock # NextOfTail
                 /\ Running(c) => c.frontBlock_ # NextOfTail
                 /\ (Running(c) /\ c.pc \in {"loadNextIndices", "advance"})
                        => c.nextBlock # NextOfTail)
    /\ [][(InReuse /\ c' # c) => q'.blocks[NextOfTail] = q.blocks[NextOfTail]]_vars

\* the producer is about to construct in the next block while the consumer is
\* in the middle of a call
C23_Witness ==
    /\ InEnqueue(p) /\ p.pc = "reuseConstruct"
    /\ Running(c) /\ c.pc \in {"storeFront", "storeNextFront", "advance"}

--------------------------------------------------------------------------
(* C24 *)

\* the tail block is full: (tail + 1) & sizeMask == front
TailBlockFull(qq) ==
    LET b == qq.blocks[qq.tailBlock]
    IN  Masked(b.tail + 1, b.sizeMask) = b.front

\* a step of the producer's call allocates, or tries to and malloc fails
Allocates == Len(q'.blocks) # Len(q.blocks) \/ (p'.mallocFailed /\ ~p.mallocFailed)

(* C24: enqueue allocates a new block if and only if the tail block is full *)
(* and tailBlock->next is the front block, as the call reads them; when the *)
(* tail block has room the element is written there; when the tail block is *)
(* full and tailBlock->next is not the front block the call writes into     *)
(* that block and advances tailBlock to it, without allocating.  With no    *)
(* dequeue in progress the whole call grows the ring exactly when the tail  *)
(* block is full and its successor is the front block.                      *)
C24_AllocIffNoFreeBlock ==
    [][ (p' # p /\ CanAlloc \in {p.op, p'.op} /\ (p.pc = "idle" => p'.op = CanAlloc)) =>
          /\ (p.pc = "idle" /\ p'.ret # "throw") =>
                /\ p'.pc = "construct" <=> ~TailBlockFull(q)
                /\ p'.pc = "checkNext" <=> TailBlockFull(q)
                /\ ~Running(c) =>
                     (Len(EnqueueAlone(q, p, TRUE).q.blocks) > Len(q.blocks)
                        <=> (TailBlockFull(q) /\ NextOfTail = q.frontBlock))
          /\ p.pc = "construct" =>
                /\ q'.blocks[q.tailBlock].data[q.blocks[q.tailBlock].tail] = p.element
                /\ p.tailBlock_ = q.tailBlock
          /\ p.pc = "checkNext" =>
                /\ p'.pc = "alloc" <=> NextOfTail = q.frontBlock
                /\ p'.pc = "reuseLoad" <=> NextOfTail # q.frontBlock
          /\ p.pc = "reuseConstruct" =>
                q'.blocks[NextOfTail].data[q.blocks[NextOfTail].tail] = p.element
          /\ p.pc = "reuseAdvance" => q'.tailBlock = NextOfTail
          /\ Allocates <=> p.pc = "alloc" ]_vars

\* an enqueue has allocated a second new block with the consumer in the middle
\* of a call
C24_Witness ==
    /\ p.op = CanAlloc /\ p.pc = "newConstruct" /\ Running(c)
    /\ Len(q.blocks) > InitialBlocks + 1

--------------------------------------------------------------------------
(* C25 *)

\* the block holds at least one resident element
HoldsElement(b) == b.front # b.tail /\ LiveSlots(b) # {}

\* the step at which an enqueue call finds that it has to allocate, or a
\* try_enqueue call returns false: the test of line 422 comes out equal
NoFreeBlockAhead ==
    /\ p' # p /\ InEnqueue(p) /\ p.pc = "checkNext"
    /\ p'.pc = "alloc" \/ p'.ret = "false"

(* C25 as stated: whenever enqueue allocates a new block, or try_enqueue *)
(* returns false, every block of the ring, the front block included,     *)
(* holds at least one resident element at that moment.                   *)
C25_Original ==
    [][ (\/ p' # p /\ p.op = CanAlloc /\ Len(q'.blocks) > Len(q.blocks)
         \/ p' # p /\ p.op = CannotAlloc /\ p'.ret = "false")
            => \A b \in Ring(q) : HoldsElement(q.blocks[b]) ]_vars

(* C25, amended: whenever enqueue finds that it has to allocate a new     *)
(* block, or try_enqueue returns false, tailBlock->next is the front      *)
(* block and every block of the ring other than the front block holds at  *)
(* least one resident element at that moment; the front block itself may  *)
(* be empty.                                                              *)
C25_NoFreeBlockBehindFront ==
    [][ NoFreeBlockAhead =>
          /\ NextOfTail = q.frontBlock
          /\ Ring(q) = {q.frontBlock} \cup AfterFront(q)
          /\ \A b \in Ring(q) \ {q.frontBlock} : HoldsElement(q.blocks[b]) ]_vars

\* a try_enqueue has returned false on a ring of three or more blocks whose
\* front block is empty
C25_Witness ==
    /\ p.op = CannotAlloc /\ p.ret = "false" /\ ~p.mallocFailed
    /\ Cardinality(Ring(q)) >= 3
    /\ ~HoldsElement(q.blocks[q.frontBlock])
    /\ q.tailBlock # q.frontBlock /\ NextOfTail = q.frontBlock

--------------------------------------------------------------------------
(* C26 *)

\* an enqueue step that adds a block to the queue
Grows == p' # p /\ p.op = CanAlloc /\ Len(q'.blocks) = Len(q.blocks) + 1

\* C26: when enqueue grows the ring, the new block's capacity is twice the
\* current watermark capped at MAX_BLOCK_SIZE, so that no grown block has a
\* capacity above MAX_BLOCK_SIZE, and largestBlockSize is set to that capacity.
C26_GrownBlockCapped ==
    [][ Grows =>
          LET newBlock == q'.blocks[Len(q'.blocks)]
          IN  /\ Capacity(newBlock) = Min({2 * q.largestBlockSize, MAX_BLOCK_SIZE})
              /\ Capacity(newBlock) <= MAX_BLOCK_SIZE
              /\ q'.largestBlockSize = Capacity(newBlock) ]_vars

--------------------------------------------------------------------------
(* C27 *)

\* the blocks reached from frontBlock form one closed simple cycle through next
\* that passes through tailBlock
ClosedCycle(qq) ==
    /\ qq.frontBlock \in BlockIds(qq)
    /\ qq.tailBlock \in Ring(qq)
    /\ \A b \in Ring(qq) : qq.blocks[b].next \in Ring(qq)
    /\ \A a, b \in Ring(qq) : a # b => qq.blocks[a].next # qq.blocks[b].next
    /\ qq.frontBlock \in RingFrom(qq, qq.blocks[qq.tailBlock].next, {})

\* the blocks that exist and are not linked into the ring
Unlinked(qq) == BlockIds(qq) \ Ring(qq)

(* C27: in every reachable state, the states in the middle of a growth     *)
(* splice with the consumer and size_approx running included, the blocks   *)
(* form one closed simple cycle through next (from frontBlock the walk     *)
(* reaches tailBlock and comes back to frontBlock), the only block off the *)
(* cycle is the one the producer has allocated and not linked yet, and     *)
(* every block on the cycle stays on it.                                   *)
C27_RingClosed ==
    /\ [](/\ ClosedCycle(q)
          /\ Unlinked(q) \subseteq
                 (IF InEnqueue(p) /\ p.pc \in {"newConstruct", "link"} THEN {p.newBlock} ELSE {}))
    /\ [][Ring(q) \subseteq Ring(q')]_vars

\* the new block is linked in and tailBlock has not moved yet, while the
\* consumer's size_approx walks the ring
C27_Witness ==
    /\ p.op = CanAlloc /\ p.pc = "newAdvance"
    /\ p.newBlock \in Ring(q) /\ q.tailBlock # p.newBlock
    /\ c.op = "size_approx" /\ c.pc = "next"
    /\ Cardinality(Ring(q)) >= 3

--------------------------------------------------------------------------
(* C28 *)

\* the slot the producer has constructed in block i and not published yet
Pending(i) ==
    IF InEnqueue(p) /\ p.pc = "publish" /\ i = p.tailBlock_ THEN {p.blockTail}
    ELSE IF InEnqueue(p) /\ p.pc = "reusePublish" /\ i = p.tailBlockNext THEN {p.nextBlockTail}
    ELSE {}

\* the slot the consumer has destructed in block i and not released yet
Taken(i) ==
    IF c.op \in {"try_dequeue", "pop"} /\ c.pc = "storeFront" /\ i = c.frontBlock_
    THEN {c.blockFront}
    ELSE IF c.op \in {"try_dequeue", "pop"} /\ c.pc = "storeNextFront" /\ i = c.frontBlock_
    THEN {c.nextBlockFront}
    ELSE {}

(* C28: for every block, in every reachable state: the capacity is a power *)
(* of two >= 2; front and tail lie in 0 .. capacity - 1; the elements the   *)
(* block holds are the slots from front up to tail (a slot being           *)
(* constructed or destructed by a call in progress aside), so the block is *)
(* empty exactly when front == tail; it holds capacity - 1 elements, and    *)
(* the producer does not write to it, exactly when (tail + 1) & sizeMask == *)
(* front; and it never holds more than capacity - 1 elements.              *)
C28_BlockInvariants ==
    \A i \in BlockIds(q) :
        LET b == q.blocks[i]
            full == Masked(b.tail + 1, b.sizeMask) = b.front
        IN  /\ Capacity(b) >= 2 /\ ceilToPow2(Capacity(b)) = Capacity(b)
            /\ DOMAIN b.data = 0 .. Capacity(b) - 1
            /\ b.front \in 0 .. Capacity(b) - 1
            /\ b.tail \in 0 .. Capacity(b) - 1
            /\ (LiveSlots(b) \cup Taken(i)) \ Pending(i) = Logical(b)
            /\ Pending(i) \cap Logical(b) = {}
            /\ Logical(b) = {} <=> b.front = b.tail
            /\ Cardinality(Logical(b)) = Capacity(b) - 1 <=> full
            /\ Cardinality(LiveSlots(b)) <= Capacity(b) - 1
            /\ (InEnqueue(p) /\ p.pc = "construct" /\ i = p.tailBlock_) => ~full
            /\ (InEnqueue(p) /\ p.pc = "checkNext" /\ i = p.tailBlock_)
                   => Masked(b.tail + 1, b.sizeMask) = b.localFront

\* the producer has found a block of four or more slots full, its indices
\* wrapped around, while the consumer has destructed one of its elements and
\* not released the slot yet
C28_Witness ==
    /\ InEnqueue(p) /\ p.pc = "checkNext"
    /\ \E i \in BlockIds(q) :
          /\ i = p.tailBlock_ /\ Capacity(q.blocks[i]) >= 4
          /\ q.blocks[i].tail < q.blocks[i].front
          /\ Cardinality(Logical(q.blocks[i])) = Capacity(q.blocks[i]) - 1
          /\ Taken(i) # {}

--------------------------------------------------------------------------
(* C29 *)

\* the least n >= 2 with (n - 1) * (MBS - 1) >= max
LeastBlockCount(max, MBS) ==
    CHOOSE n \in 2 .. max + 2 :
        /\ (n - 1) * (MBS - 1) >= max
        /\ \A m \in 2 .. n - 1 : (m - 1) * (MBS - 1) < max

\* C29: when the constructor creates several blocks for hint maxSize, every
\* block has capacity MAX_BLOCK_SIZE and the number of blocks is the least
\* n >= 2 with (n - 1) * (MAX_BLOCK_SIZE - 1) >= maxSize: all blocks but one
\* hold maxSize elements, one block is spare.
C29_InitialBlockCount ==
    (Constructed /\ Len(q.blocks) >= 2) =>
        /\ \A b \in BlockIds(q) : Capacity(q.blocks[b]) = MAX_BLOCK_SIZE
        /\ Len(q.blocks) = LeastBlockCount(maxSize, MAX_BLOCK_SIZE)
        /\ SumUsable(q, BlockIds(q) \ {1}) >= maxSize
        /\ q = ConcurrentQueue(maxSize, MAX_BLOCK_SIZE)

\* the constructor has built a ring of blocks of four or more slots for a hint
\* that does not fill the last block needed
C29_Witness ==
    /\ Constructed /\ Len(q.blocks) >= 3
    /\ MAX_BLOCK_SIZE >= 4
    /\ maxSize % (MAX_BLOCK_SIZE - 1) # 0
    /\ ClosedCycle(q) /\ Unlinked(q) = {}

--------------------------------------------------------------------------
(* C30 *)

\* C30: the constructor uses a single block exactly when the block size that
\* holds maxSize in one block, ceilToPow2(maxSize + 1), stays within
\* MAX_BLOCK_SIZE; when more than MAX_BLOCK_SIZE elements are requested it
\* reserves several blocks of MAX_BLOCK_SIZE each; no initial block has a
\* capacity above MAX_BLOCK_SIZE.
C30_SingleBlockWithinMax ==
    Constructed =>
        /\ Len(q.blocks) = 1 <=> firstBlockSize(maxSize) <= MAX_BLOCK_SIZE
        /\ maxSize > MAX_BLOCK_SIZE =>
               /\ Len(q.blocks) >= 2
               /\ \A b \in BlockIds(q) : Capacity(q.blocks[b]) = MAX_BLOCK_SIZE
        /\ \A b \in BlockIds(q) : Capacity(q.blocks[b]) <= MAX_BLOCK_SIZE

--------------------------------------------------------------------------
(* C31 *)

\* x lies between lo and hi, going round in the block's index space
Between(b, lo, x, hi) ==
    (x - lo) % Capacity(b) <= (hi - lo) % Capacity(b)

(* C31: in every block, localTail lies between front and the real tail in   *)
(* circular order, and the real front lies between localFront and tail: a   *)
(* consumer that finds front different from localTail has a block that is   *)
(* not empty, and a producer that finds (tail + 1) & sizeMask different     *)
(* from localFront has a block that is not full.                            *)
C31_ShadowsConservative ==
    \A i \in BlockIds(q) :
        LET b == q.blocks[i]
        IN  /\ Between(b, b.front, b.localTail, b.tail)
            /\ Between(b, b.localFront, b.front, b.tail)
            /\ b.front # b.localTail => b.front # b.tail
            /\ Masked(b.tail + 1, b.sizeMask) # b.localFront
                   => Masked(b.tail + 1, b.sizeMask) # b.front
            /\ (c.op \in DequeueOps /\ c.pc = "nonEmpty" /\ i = c.frontBlock_)
                   => b.front # b.tail
            /\ (InEnqueue(p) /\ p.pc = "construct" /\ i = p.tailBlock_)
                   => Masked(b.tail + 1, b.sizeMask) # b.front

\* both shadows of one block are stale while each thread acts on its own: the
\* consumer takes an element and the producer constructs one
C31_Witness ==
    /\ c.op \in {"try_dequeue", "pop"} /\ c.pc = "nonEmpty"
    /\ InEnqueue(p) /\ p.pc = "construct" /\ p.tailBlock_ = c.frontBlock_
    /\ q.blocks[c.frontBlock_].localTail # q.blocks[c.frontBlock_].tail
    /\ q.blocks[c.frontBlock_].localFront # q.blocks[c.frontBlock_].front

--------------------------------------------------------------------------
(* C32 *)

\* the slot, as <<block, index>>, the producer's call is about to construct in
ProducerSlot ==
    IF ~InEnqueue(p) THEN <<>>
    ELSE IF p.pc = "construct" THEN <<p.tailBlock_, p.blockTail>>
    ELSE IF p.pc = "reuseConstruct" THEN <<p.tailBlockNext, p.nextBlockTail>>
    ELSE IF p.pc = "newConstruct" THEN <<p.newBlock, 0>>
    ELSE <<>>

\* the slot the consumer's call is about to read and destruct
ConsumerSlot ==
    IF c.op \notin {"try_dequeue", "pop"} THEN <<>>
    ELSE IF c.pc = "nonEmpty" THEN <<c.frontBlock_, c.blockFront>>
    ELSE IF c.pc = "takeNext" THEN <<c.frontBlock_, c.nextBlockFront>>
    ELSE <<>>

\* the slot holds an element that is constructed, published and not destructed
Published(s) ==
    /\ q.blocks[s[1]].data[s[2]] # 0
    /\ s[2] \in Logical(q.blocks[s[1]])
    /\ s[2] \notin Pending(s[1])

(* C32: under every interleaving, the slot the producer is about to        *)
(* construct in holds no live element and lies outside the elements of its *)
(* block; the slot try_dequeue or pop is about to read and destruct, and   *)
(* the slot peek has returned a pointer to, holds an element that is       *)
(* constructed, published and not destructed; the two threads are never at *)
(* the same slot.                                                          *)
C32_SlotExclusive ==
    /\ ProducerSlot # <<>> =>
           /\ q.blocks[ProducerSlot[1]].data[ProducerSlot[2]] = 0
           /\ ProducerSlot[2] \notin Logical(q.blocks[ProducerSlot[1]])
    /\ ConsumerSlot # <<>> => Published(ConsumerSlot)
    /\ (c.op = "peek" /\ c.ret = "pointer") =>
           /\ Published(<<c.outBlock, c.outIndex>>)
           /\ q.blocks[c.outBlock].data[c.outIndex] = c.out
           /\ ProducerSlot # <<c.outBlock, c.outIndex>>
    /\ (ProducerSlot # <<>> /\ ConsumerSlot # <<>>) => ProducerSlot # ConsumerSlot

\* both threads are at a slot of the same block, whose indices have wrapped
C32_Witness ==
    /\ ProducerSlot # <<>> /\ ConsumerSlot # <<>>
    /\ ProducerSlot[1] = ConsumerSlot[1]
    /\ ProducerSlot[2] < ConsumerSlot[2]

--------------------------------------------------------------------------
(* C33 *)

\* the call has reported an empty queue
ReportsEmpty(ff) == ff.op \in DequeueOps /\ ff.pc = "done" /\ ff.ret \in {"false", "null"}

(* C33: under concurrent use, a try_dequeue, peek or pop call reports empty *)
(* only if, at the instant it read its front block's tail, no element of a *)
(* completed enqueue was resident; the resident elements of completed       *)
(* enqueues are at all times the elements enqueued and not yet removed, so *)
(* every element resident at the return was enqueued after that instant,   *)
(* and the call that reports empty has removed nothing.                    *)
C33_EmptyOnlyIfEmpty ==
    /\ [](/\ ReportsEmpty(c) => c.emptyAtCall
          /\ CompletedResident(q) = (1 .. p.count) \ Range(c.removed))
    /\ [][(c' # c /\ ReportsEmpty(c')) =>
              /\ c'.removed = c.removed
              /\ c.emptyAtCall
              /\ c.path = "front" ]_vars

\* a peek has reported empty although an enqueue completed during the call left
\* its element resident
C33_Witness ==
    /\ ReportsEmpty(c) /\ c.op = "peek"
    /\ CompletedResident(q) # {}
    /\ Len(c.removed) >= 1


\* a call of the role is between its guard's constructor and its destructor
EnqueueInProgress == InEnqueue(p) /\ Running(p)
DequeueInProgress == c.op \in DequeueOps /\ Running(c)

(* C34: while the process is up, the flag enqueuing is set exactly while   *)
(* an enqueue or try_enqueue is in progress and the flag dequeuing exactly *)
(* while a try_dequeue, peek or pop is in progress: each is clear again    *)
(* once the call has returned true or false or has been left by an         *)
(* exception.  No step of the consumer thread and no step of size_approx   *)
(* writes enqueuing, no step of the producer thread and no step of         *)
(* size_approx writes dequeuing, and a call made between calls is never    *)
(* rejected by the guard.                                                  *)
C34_GuardFlags ==
    /\ [](Up => /\ q.enqueuing <=> EnqueueInProgress
                /\ q.dequeuing <=> DequeueInProgress)
    /\ [][
          /\ p' # p => q'.dequeuing = q.dequeuing
          /\ c' # c => q'.enqueuing = q.enqueuing
          /\ (p' # p /\ "size_approx" \in {p.op, p'.op})
                => q'.enqueuing = q.enqueuing
          /\ (c' # c /\ "size_approx" \in {c.op, c'.op})
                => q'.dequeuing = q.dequeuing
          /\ (p.pc = "idle" /\ p' # p) => p'.ret # "throw"
          /\ (c.pc = "idle" /\ c' # c) => c'.ret # "throw"
         ]_vars

\* an enqueue and a try_dequeue have both been left by the exception of a
\* rejected nested call, both flags are clear again, and an element is resident
C34_Witness ==
    /\ p.pc = "done" /\ p.ret = "throw" /\ InEnqueue(p) /\ ~q.enqueuing
    /\ c.pc = "done" /\ c.ret = "throw" /\ c.op = "try_dequeue" /\ ~q.dequeuing
    /\ Resident(q) >= 1


(* C35: whenever the producer thread is not inside the constructor or an   *)
(* enqueue, every block that make_block has allocated is freed or linked   *)
(* into the ring of the constructed queue: a constructor that threw and an *)
(* enqueue left by an exception have left no allocated block outside it.   *)
C35_NoBlockOutsideRing ==
    ~Running(p) =>
        \A b \in BlockIds(q) : b \in Range(c.freed) \/ (Constructed /\ b \in Ring(q))


\* the thread is inside size_approx
Walking(ff) == ff.op = "size_approx" /\ Running(ff)

\* the blocks the walk still has to go to: those from the successor of the
\* block it is at up to and including the block it started from
WalkAhead(qq, ff) == PathTo(qq, qq.blocks[ff.blk].next, ff.frontBlock_, {})

\* the steps a size_approx call at this position still takes if the ring
\* stays as it is: three per block
WalkStepsLeft(qq, ff) ==
    IF ~Walking(ff) THEN 0
    ELSE 3 * (Cardinality(WalkAhead(qq, ff)) - 1)
           + (CASE ff.pc = "loadFront" -> 3 [] ff.pc = "loadTail" -> 2 [] ff.pc = "next" -> 1)

(* C36: every size_approx call returns, whatever the other thread does     *)
(* meanwhile, growth splices included.  Its walk goes to no block twice,   *)
(* the block it started from is always ahead of it, every step of its own  *)
(* brings it closer to its return, and a step of the other thread puts it  *)
(* further from its return only by linking a new block into the ring, by   *)
(* the three steps of one more block.                                      *)
C36_WalkTerminates ==
    /\ Walking(p) ~> (p.pc = "done")
    /\ Walking(c) ~> (c.pc = "done")
    /\ [](\A ff \in {p, c} : Walking(ff) =>
             /\ ff.frontBlock_ \in WalkAhead(q, ff)
             /\ ff.blk \in ff.visited
             /\ ff.visited \cap WalkAhead(q, ff) \subseteq {ff.frontBlock_}
             /\ ff.visited \subseteq Ring(q))
    /\ [][
          /\ (p' # p /\ Walking(p)) => WalkStepsLeft(q', p') < WalkStepsLeft(q, p)
          /\ (c' # c /\ Walking(c)) => WalkStepsLeft(q', c') < WalkStepsLeft(q, c)
          /\ (p' # p /\ Walking(p) /\ p'.blk # p.blk) => p'.blk \notin p.visited
          /\ (c' # c /\ Walking(c) /\ c'.blk # c.blk) => c'.blk \notin c.visited
          /\ (p' = p /\ Walking(p)) =>
                WalkStepsLeft(q', p) <= WalkStepsLeft(q, p)
                                         + 3 * (Cardinality(Ring(q')) - Cardinality(Ring(q)))
          /\ (c' = c /\ Walking(c)) =>
                WalkStepsLeft(q', c) <= WalkStepsLeft(q, c)
                                         + 3 * (Cardinality(Ring(q')) - Cardinality(Ring(q)))
         ]_vars

\* the consumer's size_approx started on a ring of one block, the producer
\* linked a second block in during the walk, and the walk has gone to it
C36_Witness ==
    /\ Walking(c) /\ c.pc = "next"
    /\ InitialBlocks = 1 /\ Cardinality(Ring(q)) = 2
    /\ c.visited = Ring(q)
    /\ c.blk # c.frontBlock_


\* the objects above x in the parent relation, computed by closing the set of
\* parents under parent
RECURSIVE AncestorsWithin(_, _, _)
AncestorsWithin(d, S, n) ==
    IF n = 0 THEN S
    ELSE AncestorsWithin(d, S \cup ({d._parent[o] : o \in S} \ {0}), n - 1)

Ancestors(d, x) == AncestorsWithin(d, {d._parent[x]} \ {0}, MaxObjects)

\* no object is above itself
Acyclic(d) == \A o \in Objects : o \notin Ancestors(d, o)

\* x is `this' or one of its descendants
SelfOrDescendant(d, this, x) == x = this \/ (x # 0 /\ this \in Ancestors(d, x))

(* C37: the parent relation is acyclic in every state.  A setParent call   *)
(* whose argument is the object itself or one of its descendants throws    *)
(* invalid_argument and changes no parent; every other call, a call with   *)
(* null included, returns and has set the object's parent to the argument  *)
(* and changed no other object's parent.                                   *)
C37_ParentAcyclic ==
    /\ [](Acyclic(display) /\ display.ret \in {"none", "void", "invalid_argument"})
    /\ [][ LET this == display'.this
               arg  == display'.arg
           IN  IF SelfOrDescendant(display, this, arg)
               THEN /\ display'.ret = "invalid_argument"
                    /\ display'._parent = display._parent
               ELSE /\ display'.ret = "void"
                    /\ display'._parent = [display._parent EXCEPT ![this] = arg]
         ]_vars

\* an object with a grandchild has been refused the grandchild as its parent
C37_Witness ==
    /\ display.ret = "invalid_argument"
    /\ display.this # display.arg
    /\ display._parent[display.arg] # display.this
    /\ display.this \in Ancestors(display, display.arg)


\* the answers that end a load in success, in order: the open, any number of
\* chunks, the completed read, the close
SuccessfulLoad(steps) ==
    /\ Len(steps) >= 3
    /\ steps[1] = "open"
    /\ steps[Len(steps) - 1] = "complete"
    /\ steps[Len(steps)] = "close"
    /\ \A i \in 2 .. Len(steps) - 2 : steps[i] = "chunk"

\* an open, read or close of the current load has reported an error
LoadFailed(f) ==
    \E i \in DOMAIN f.steps : f.steps[i] \in {"open error", "read error", "close error"}

(* C38: load() called while a load is in progress makes no open request,   *)
(* and at most one request is with the service at a time.  The state       *)
(* becomes FILE_LOADED, and COMPLETE is dispatched, only by the error-free *)
(* answer to the close that followed an error-free open and an error-free  *)
(* completed read.  Once an open, read or close of a load has reported an  *)
(* error the state is never FILE_LOADED for that load: it is FILE_EMPTY    *)
(* with ERROR the last event dispatched, or still FILE_LOADING while the   *)
(* close after a read error is outstanding.  data() is null in every state *)
(* other than FILE_LOADED.                                                 *)
C38_LoadStateMachine ==
    /\ [](/\ Len(file.pending) <= 1
          /\ file._state # FILE_LOADED => data(file) = 0
          /\ file._state = FILE_LOADED => SuccessfulLoad(file.steps)
          /\ LoadFailed(file) =>
                \/ file._state = FILE_EMPTY /\ file.events[Len(file.events)] = "ERROR"
                \/ file._state = FILE_LOADING /\ file.pending = <<"close after error">>)
    /\ [][
          /\ file._state = FILE_LOADING => file'.opens = file.opens
          /\ (file'._state = FILE_LOADED /\ file._state # FILE_LOADED) =>
                /\ file.pending = <<"close">>
                /\ file'.events = Append(file.events, "COMPLETE")
          /\ (file'.events # file.events /\ file'.events[Len(file'.events)] = "COMPLETE") =>
                file'._state = FILE_LOADED /\ file._state = FILE_LOADING
          /\ (file'._state = FILE_EMPTY /\ file._state # FILE_EMPTY) =>
                /\ LoadFailed(file')
                /\ file'.events = Append(file.events, "ERROR")
         ]_vars

\* two loads have failed, and the third one, with a chunk before the completion
\* of its read, has loaded the file
C38_Witness ==
    /\ file._state = FILE_LOADED /\ data(file) # 0
    /\ file.events = <<"ERROR", "ERROR", "COMPLETE">>
    /\ Chunks(file) >= 1


\* b1 holds, at the indices of b0's array outside [lo, hi), the bytes b0 holds
SameOutside(b0, b1, lo, hi) ==
    \A i \in 0 .. b0._length - 1 :
        i \notin lo .. hi - 1 => (i < b1._length /\ b1._byteArray[i] = b0._byteArray[i])

\* the bytes of b0's array that are still in b1's array have their values
UnchangedOutside(b0, b1, lo, hi) ==
    \A i \in 0 .. b0._length - 1 :
        (i \notin lo .. hi - 1 /\ i < b1._length) => b1._byteArray[i] = b0._byteArray[i]

(* C39: in every state of the array, for every source, offset and length:  *)
(* writeBytes(src, offset, len) at the current position p, then            *)
(* position(p), then readBytes(dst, 0, len) does not throw and leaves      *)
(* src[offset .. offset + len) in dst, and the write has changed no byte   *)
(* of the array outside [p, p + len).                                      *)
C39_WriteReadRoundTrip ==
    \A len \in 0 .. MaxBytes, offset \in 0 .. 1 :
        (bytes._position + len <= MaxLength) =>
            \A src \in ByteSeqs(offset + len) :
                LET pos     == bytes._position
                    written == writeBytes(bytes, src, offset, len)
                    read    == readBytes(position_set(written, pos), 0, len)
                IN  /\ read.ret = "void"
                    /\ read.dst = [k \in 1 .. len |-> src[offset + k]]
                    /\ UnchangedOutside(bytes, written, pos, pos + len)

\* the array after a write of `size' bytes at the position of b0
WriteKeeps(b0, b1, size) ==
    /\ length(b1) = IF length(b0) >= b0._position + size THEN length(b0)
                    ELSE b0._position + size
    /\ b1._position = b0._position + size
    /\ SameOutside(b0, b1, b0._position, b0._position + size)

(* C40: in every state reached by position() and write calls, a write of s *)
(* bytes at position p (writeByte, writeShort, writeInt, writeBytes)       *)
(* leaves length() = max(previous length, p + s) and position = p + s, and *)
(* every byte that was in the array outside [p, p + s) is still in it,     *)
(* unchanged.                                                              *)
C40_WritesNeverShrink ==
    /\ \A size \in {SizeofInt8, SizeofInt16, SizeofInt32} :
          (bytes._position + size <= MaxLength) =>
              \A value \in ByteSeqs(size) : WriteKeeps(bytes, write(bytes, value), size)
    /\ \A len \in 0 .. MaxBytes :
          (bytes._position + len <= MaxLength) =>
              \A src \in ByteSeqs(len) : WriteKeeps(bytes, writeBytes(bytes, src, 0, len), len)

==========================================================================
